---- MODULE Spec2Model ----
(***************************************************************************)
(* Model of cld-bulk (cloudinary/cld-migrate-assets-in-bulk):              *)
(*   - the structured metadata mapper plugin (CloudinaryMetadataMapper),   *)
(*   - the plugin manager (loadPlugins_Async / getPlugin),                 *)
(*   - the payload builder (input2ApiPayload_Async),                       *)
(*   - the main loop (loopOverCsvInput_Async driving async.mapLimit).      *)
(*                                                                         *)
(* JavaScript strings that the code trims, lower-cases or splits are       *)
(* sequences of one-character strings; identifiers that the code only      *)
(* compares (CSV column names, SMD field external ids, plugin names) are   *)
(* plain strings.                                                          *)
(***************************************************************************)
EXTENDS Integers, Sequences, FiniteSets, TLC

(***************************************************************************)
(* Bounds of the model                                                     *)
(***************************************************************************)
\* longest CSV input (number of records the source yields)
MaxRecords == 3
\* largest value of --max-concurrent-uploads explored
MaxLimit == 2

(***************************************************************************)
(* JavaScript string primitives                                            *)
(***************************************************************************)
\* String.prototype.toLowerCase, one character
LowerChar(c) ==
    CASE c = "A" -> "a"
      [] c = "B" -> "b"
      [] c = "C" -> "c"
      [] c = "X" -> "x"
      [] OTHER   -> c

\* String.prototype.toLowerCase
toLowerCase(s) == [i \in 1..Len(s) |-> LowerChar(s[i])]

\* white space as String.prototype.trim sees it
IsWhiteSpace(c) == c = " "

RECURSIVE trimStart(_)
trimStart(s) ==
    IF s # <<>> /\ IsWhiteSpace(Head(s)) THEN trimStart(Tail(s)) ELSE s

RECURSIVE trimEnd(_)
trimEnd(s) ==
    IF s # <<>> /\ IsWhiteSpace(s[Len(s)])
    THEN trimEnd(SubSeq(s, 1, Len(s) - 1))
    ELSE s

\* String.prototype.trim
trim(s) == trimEnd(trimStart(s))

\* String.prototype.split(sep) for a one-character separator: always at least
\* one piece, empty pieces are kept
RECURSIVE splitFrom(_, _, _)
splitFrom(s, sep, cur) ==
    IF s = <<>> THEN <<cur>>
    ELSE IF Head(s) = sep
         THEN <<cur>> \o splitFrom(Tail(s), sep, <<>>)
         ELSE splitFrom(Tail(s), sep, Append(cur, Head(s)))

\* a plausible slip: the empty pieces are left out
split_dropsEmpty(s, sep) == SelectSeq(splitFrom(s, sep, <<>>), LAMBDA piece : piece # <<>>)

split(s, sep) == splitFrom(s, sep, <<>>)

(***************************************************************************)
(* Errors.  Every error is a record of one shape:                          *)
(*   name    the error's .name without the plugin-name prefix               *)
(*   msg     which message template was used                               *)
(*   subject the identifier (column, external id) the message quotes       *)
(*   value   the string value the message quotes                           *)
(*   cause   the name of the wrapped error ("none" when nothing is wrapped)*)
(***************************************************************************)
MkError(name, msg, subject, value, cause) ==
    [name |-> name, msg |-> msg, subject |-> subject, value |-> value, cause |-> cause]

NoError == MkError("none", "none", "", <<>>, "none")

NotInitializedError ==
    MkError("NotInitializedError", "needs to be initialized before use", "", <<>>, "none")

InvalidMappingError(msg, subject) ==
    MkError("InvalidMappingError", msg, subject, <<>>, "none")

InvalidDataSourceOptionError(option, fieldId) ==
    MkError("InvalidDataSourceOptionError", "Option not found in datasource",
            fieldId, option, "none")

FailedToProcessMetadataValueError(value, fieldId, cause) ==
    MkError("FailedToProcessMetadataValueError", "Failed to process value for the field",
            fieldId, value, cause.name)

\* the errors thrown by JavaScript itself or with the plain Error class
RangeError == MkError("RangeError", "Invalid time value", "", <<>>, "none")

\* the keys every object inherits from Object.prototype (two of them)
ObjectPrototype == {"toString", "constructor"}

\* what calling ?.trim() on an inherited member (a function) throws
TrimNotAFunctionError(csvColumn) ==
    MkError("TypeError", "trim is not a function", csvColumn, <<>>, "none")

FieldTypeNotFoundError(fieldId) ==
    MkError("Error", "Field type not found", fieldId, <<>>, "none")


(***************************************************************************)
(* State                                                                   *)
(***************************************************************************)
VARIABLES
    \* --- structured metadata mapper (CloudinaryMetadataMapper) ---
    metadata_structure, \* the private #metadata_structure: [init, fields]
    tzOffset,           \* time zone of the process, hours east of UTC
    upload_options,     \* metadata of the upload options handed to process()
    input_fields,       \* the CSV record handed to process()
    options,            \* the options handed to process()
    call                \* the last call of process(): whether init() had run, what
                        \* went in and what came out

mapperVars == <<metadata_structure, tzOffset, upload_options, input_fields, options, call>>

VARIABLES
    \* --- environment of a run ---
    cloudConfigured,    \* cloudinary.config().cloud_name is set
    pluginsFolder,      \* listing of the __plugins folder: files [file, kind]
    csv,                \* the records of the input CSV file, in file order
    maxConcurrentUploads, \* cliArgs.maxConcurrentUploads
    \* --- plugin manager ---
    IS_INITIALIZED,     \* _IS_INITIALIZED
    LOADED_PLUGINS,     \* _LOADED_PLUGINS: plugin name -> kind of the plugin object
    loader,             \* loadPlugins_Async: [pc, files, next, inits, error, named]
    client,             \* the last call of the manager from outside the run
    \* --- loopOverCsvInput_Async ---
    mainPc,             \* where the function is
    stats,              \* {concurrent, attempted, succeeded, failed}
    log,                \* the log file: script and payload records in write order
    report,             \* [made, rows]: the migration report
    \* --- async.mapLimit over the record generator ---
    generator,          \* [yielded, state]: the async generator of CSV records
    mapLimit,           \* [running, awaiting, done, settled]
    worker,             \* per record (by position): the iteratee invocation
    \* --- bookkeeping of what happened (not program state) ---
    history             \* per record: runs of the worker, remote calls, error thrown

envVars == <<cloudConfigured, pluginsFolder, csv, maxConcurrentUploads>>

pluginVars == <<IS_INITIALIZED, LOADED_PLUGINS, loader, client>>

engineVars == <<mainPc, stats, log, report, generator, mapLimit, worker, history>>

vars == <<mapperVars, envVars, pluginVars, engineVars>>

(***************************************************************************)
(* Dates: new Date(value) and Date.prototype.toISOString                   *)
(***************************************************************************)
IsDigit(c) == c \in {"0", "1", "2", "3", "4", "5", "6", "7", "8", "9"}

DigitValue(c) ==
    CASE c = "0" -> 0 [] c = "1" -> 1 [] c = "2" -> 2 [] c = "3" -> 3 [] c = "4" -> 4
      [] c = "5" -> 5 [] c = "6" -> 6 [] c = "7" -> 7 [] c = "8" -> 8 [] c = "9" -> 9

DigitChar(n) ==
    CASE n = 0 -> "0" [] n = 1 -> "1" [] n = 2 -> "2" [] n = 3 -> "3" [] n = 4 -> "4"
      [] n = 5 -> "5" [] n = 6 -> "6" [] n = 7 -> "7" [] n = 8 -> "8" [] n = 9 -> "9"

AllDigits(s, from, to) == \A i \in from..to : IsDigit(s[i])

RECURSIVE Number(_, _, _)
Number(s, from, to) ==
    IF from > to THEN 0
    ELSE Number(s, from, to - 1) * 10 + DigitValue(s[to])

IsLeapYear(y) == (y % 4 = 0 /\ y % 100 # 0) \/ y % 400 = 0

DaysInMonth(y, m) ==
    IF m = 2 THEN (IF IsLeapYear(y) THEN 29 ELSE 28)
    ELSE IF m \in {4, 6, 9, 11} THEN 30 ELSE 31

InvalidDate == [valid |-> FALSE, y |-> 0, m |-> 0, d |-> 0, hour |-> 0, local |-> FALSE]

\* "YYYY-MM-DD": the ECMAScript date-only form, taken as UTC midnight
IsIsoDateOnly(s) ==
    /\ Len(s) = 10
    /\ AllDigits(s, 1, 4) /\ s[5] = "-" /\ AllDigits(s, 6, 7) /\ s[8] = "-"
    /\ AllDigits(s, 9, 10)

\* "YYYY/MM/DD HH:MM:SS": accepted by the engine's fallback parser, taken as
\* local time
IsSlashDateTime(s) ==
    /\ Len(s) = 19
    /\ AllDigits(s, 1, 4) /\ s[5] = "/" /\ AllDigits(s, 6, 7) /\ s[8] = "/"
    /\ AllDigits(s, 9, 10) /\ s[11] = " "
    /\ AllDigits(s, 12, 13) /\ s[14] = ":" /\ AllDigits(s, 15, 16) /\ s[17] = ":"
    /\ AllDigits(s, 18, 19)

\* new Date(value): anything the two grammars above do not cover, or with a
\* field out of range, is an Invalid Date
NewDate(s) ==
    IF IsIsoDateOnly(s) \/ IsSlashDateTime(s)
    THEN LET y  == Number(s, 1, 4)
             m  == Number(s, 6, 7)
             d  == Number(s, 9, 10)
             hh == IF IsSlashDateTime(s) THEN Number(s, 12, 13) ELSE 0
             mi == IF IsSlashDateTime(s) THEN Number(s, 15, 16) ELSE 0
             ss == IF IsSlashDateTime(s) THEN Number(s, 18, 19) ELSE 0
         IN  IF /\ m \in 1..12 /\ d \in 1..DaysInMonth(y, m)
                /\ hh \in 0..23 /\ mi \in 0..59 /\ ss \in 0..59
             THEN [valid |-> TRUE, y |-> y, m |-> m, d |-> d, hour |-> hh,
                   local |-> IsSlashDateTime(s)]
             ELSE InvalidDate
    ELSE InvalidDate

\* the UTC calendar day of a Date: a local time is shifted by the zone offset
UtcDay(date) ==
    LET h == IF date.local THEN date.hour - tzOffset ELSE date.hour
    IN  IF h < 0
        THEN IF date.d > 1 THEN [y |-> date.y, m |-> date.m, d |-> date.d - 1]
             ELSE IF date.m > 1
                  THEN [y |-> date.y, m |-> date.m - 1,
                        d |-> DaysInMonth(date.y, date.m - 1)]
                  ELSE [y |-> date.y - 1, m |-> 12, d |-> 31]
        ELSE IF h >= 24
        THEN IF date.d < DaysInMonth(date.y, date.m)
             THEN [y |-> date.y, m |-> date.m, d |-> date.d + 1]
             ELSE IF date.m < 12
                  THEN [y |-> date.y, m |-> date.m + 1, d |-> 1]
                  ELSE [y |-> date.y + 1, m |-> 1, d |-> 1]
        ELSE [y |-> date.y, m |-> date.m, d |-> date.d]

TwoDigits(n) == <<DigitChar(n \div 10), DigitChar(n % 10)>>

FourDigits(n) == <<DigitChar(n \div 1000), DigitChar((n \div 100) % 10)>> \o TwoDigits(n % 100)

\* date.toISOString().split('T')[0]
ISODatePart(date) ==
    LET u == UtcDay(date)
    IN  FourDigits(u.y) \o <<"-">> \o TwoDigits(u.m) \o <<"-">> \o TwoDigits(u.d)


(***************************************************************************)
(* CloudinaryMetadataMapper                                                *)
(*                                                                         *)
(* A field of the metadata structure is                                    *)
(*   [external_id, type, datasource], datasource a sequence of             *)
(*   [external_id, value, state]  (value is the option's label).           *)
(* The options handed to process() are [kind, mapping, separator]:         *)
(*   kind "null"      options is null or undefined                         *)
(*   kind "noMapping" options.mapping is undefined                         *)
(*   kind "notObject" options.mapping is a non-empty string                *)
(*   kind "object"    options.mapping is an object; mapping lists its      *)
(*                    [col, id] entries in Object.entries order            *)
(*   separator        options.separator: a character, "none" when the       *)
(*                    property is absent                                   *)
(* upload_options.metadata is [present, m]: present FALSE when the         *)
(* property is absent, m the map from external id to value.  A value is    *)
(* [kind, s, l]: a string s (kind "string") or a list l of strings.        *)
(***************************************************************************)
StringValue(s) == [kind |-> "string", s |-> s, l |-> <<>>]

ListValue(l) == [kind |-> "list", s |-> <<>>, l |-> l]

EmptyObject == [k \in {} |-> StringValue(<<>>)]

AbsentMetadata == [present |-> FALSE, m |-> EmptyObject]

\* obj[key] = value on a copy of obj
Put(obj, key, value) ==
    [k \in (DOMAIN obj) \cup {key} |-> IF k = key THEN value ELSE obj[k]]

\* the element of a one-element set.  Only({F(x) : x \in {v}}) is F(v) with
\* v evaluated once and before F, as JavaScript evaluates an argument or the
\* right-hand side of a const before anything uses it
Only(S) == CHOOSE y \in S : TRUE

\* the first of the indexes hits, 0 when there is none
FirstIndex(hits) ==
    IF hits = {} THEN 0 ELSE CHOOSE i \in hits : \A j \in hits : i <= j

\* a plausible slip: the state of an option is not looked at
lookupMetadataValueExternalId_anyState(fieldSchema, option) ==
    LET values  == fieldSchema.datasource
        wanted  == toLowerCase(trim(option))
        byId    == FirstIndex({k \in 1..Len(values) :
                       toLowerCase(values[k].external_id) = wanted})
        byLabel == FirstIndex({k \in 1..Len(values) :
                       toLowerCase(values[k].value) = wanted})
    IN  IF byId # 0 THEN [err |-> NoError, id |-> values[byId].external_id]
        ELSE IF byLabel # 0 THEN [err |-> NoError, id |-> values[byLabel].external_id]
        ELSE [err |-> InvalidDataSourceOptionError(trim(option), fieldSchema.external_id),
              id  |-> <<>>]

\* a plausible slip: identifiers and labels are compared as they are written
lookupMetadataValueExternalId_caseSensitive(fieldSchema, option) ==
    LET values  == fieldSchema.datasource
        wanted  == trim(option)
        byId    == FirstIndex({k \in 1..Len(values) :
                       /\ values[k].state = "active"
                       /\ values[k].external_id = wanted})
        byLabel == FirstIndex({k \in 1..Len(values) :
                       /\ values[k].state = "active"
                       /\ values[k].value = wanted})
    IN  IF byId # 0 THEN [err |-> NoError, id |-> values[byId].external_id]
        ELSE IF byLabel # 0 THEN [err |-> NoError, id |-> values[byLabel].external_id]
        ELSE [err |-> InvalidDataSourceOptionError(trim(option), fieldSchema.external_id),
              id  |-> <<>>]

\* #lookupMetadataValueExternalId: [err, id]
lookupMetadataValueExternalId(fieldSchema, option) ==
    LET values  == fieldSchema.datasource
        wanted  == toLowerCase(trim(option))
        byId    == FirstIndex({k \in 1..Len(values) :
                       /\ values[k].state = "active"
                       /\ toLowerCase(values[k].external_id) = wanted})
        byLabel == FirstIndex({k \in 1..Len(values) :
                       /\ values[k].state = "active"
                       /\ toLowerCase(values[k].value) = wanted})
    IN  IF byId # 0 THEN [err |-> NoError, id |-> values[byId].external_id]
        ELSE IF byLabel # 0 THEN [err |-> NoError, id |-> values[byLabel].external_id]
        ELSE [err |-> InvalidDataSourceOptionError(trim(option), fieldSchema.external_id),
              id  |-> <<>>]

\* value.split(',').map(item => lookup(item)): the items are looked up in
\* order and the first one that does not resolve throws
RECURSIVE lookupAll(_, _, _, _)
\* a plausible slip: each identifier is put in front of those found so far
lookupNext_reversed(fieldSchema, items, i, acc, r) ==
    IF r.err # NoError THEN [err |-> r.err, val |-> StringValue(<<>>)]
    ELSE lookupAll(fieldSchema, items, i + 1, <<r.id>> \o acc)

\* a plausible slip: a part that does not resolve is left out
lookupNext_dropsUnresolved(fieldSchema, items, i, acc, r) ==
    IF r.err # NoError THEN lookupAll(fieldSchema, items, i + 1, acc)
    ELSE lookupAll(fieldSchema, items, i + 1, Append(acc, r.id))

\* one step of the map, r being the outcome of the lookup of items[i]
lookupNext(fieldSchema, items, i, acc, r) ==
    IF r.err # NoError THEN [err |-> r.err, val |-> StringValue(<<>>)]
    ELSE lookupAll(fieldSchema, items, i + 1, Append(acc, r.id))

lookupAll(fieldSchema, items, i, acc) ==
    IF i > Len(items) THEN [err |-> NoError, val |-> ListValue(acc)]
    ELSE Only({ lookupNext(fieldSchema, items, i, acc, r) :
                    r \in {lookupMetadataValueExternalId(fieldSchema, items[i])} })

\* date.toISOString().split('T')[0] of new Date(value); toISOString throws a
\* RangeError on an Invalid Date
formatDate(date) ==
    IF date.valid
    THEN [err |-> NoError, val |-> StringValue(ISODatePart(date))]
    ELSE [err |-> RangeError, val |-> StringValue(<<>>)]

singleValue(r) == [err |-> r.err, val |-> StringValue(r.id)]

\* #processMetadataValue: [err, val]
\* a plausible slip: a field of an unknown type is written as text is
processMetadataValue_unknownAsText(fieldSchema, value) ==
    CASE fieldSchema.type = "set" ->
            lookupAll(fieldSchema, split(value, ","), 1, <<>>)
      [] fieldSchema.type = "date" ->
            formatDate(NewDate(value))
      [] fieldSchema.type = "enum" ->
            singleValue(lookupMetadataValueExternalId(fieldSchema, value))
      [] OTHER ->
            [err |-> NoError, val |-> StringValue(value)]

processMetadataValue(fieldSchema, value) ==
    CASE fieldSchema.type = "set" ->
            lookupAll(fieldSchema, split(value, ","), 1, <<>>)
      [] fieldSchema.type = "date" ->
            formatDate(NewDate(value))
      [] fieldSchema.type = "enum" ->
            singleValue(lookupMetadataValueExternalId(fieldSchema, value))
      [] fieldSchema.type \in {"integer", "string"} ->
            [err |-> NoError, val |-> StringValue(value)]
      [] OTHER ->
            [err |-> FieldTypeNotFoundError(fieldSchema.external_id),
             val |-> StringValue(<<>>)]

\* #lookupFieldSchema: Array.prototype.find on the metadata structure
lookupFieldSchema(externalId) ==
    LET fields == metadata_structure.fields
    IN  fields[FirstIndex({k \in 1..Len(fields) : fields[k].external_id = externalId})]

\* #validateMapping: the error it throws, NoError when it returns
validateMapping(opts, input) ==
    LET mapping == opts.mapping
        dup     == FirstIndex({k \in 1..Len(mapping) :
                       \E j \in 1..(k - 1) : mapping[j].id = mapping[k].id})
        noCol   == FirstIndex({k \in 1..Len(mapping) :
                       mapping[k].col \notin (DOMAIN input \cup ObjectPrototype)})
        valid   == {metadata_structure.fields[i].external_id :
                       i \in 1..Len(metadata_structure.fields)}
        noField == FirstIndex({k \in 1..Len(mapping) : mapping[k].id \notin valid})
    IN  IF opts.kind # "object"
        THEN InvalidMappingError("Mapping must be an object", "")
        ELSE IF dup # 0
        THEN InvalidMappingError("Duplicate external_id found", mapping[dup].id)
        ELSE IF noCol # 0
        THEN InvalidMappingError("CSV column not found in input fields", mapping[noCol].col)
        ELSE IF ~metadata_structure.init
        THEN NotInitializedError
        ELSE IF noField # 0
        THEN InvalidMappingError("External ID not found in metadata structure",
                                 mapping[noField].id)
        ELSE NoError

\* the for loop of process() from entry i on; metadata is the working copy.
\* The result is [err, metadata]: the error thrown and the copy at that point.
RECURSIVE processEntries(_, _, _, _)
\* a plausible slip: the catch block rethrows whatever it caught
processedValue_rethrowsAll(mapping, i, input, metadata, value, r) ==
    IF r.err = NoError
    THEN Only({ processEntries(mapping, i + 1, input, m) :
                    m \in {Put(metadata, mapping[i].id, r.val)} })
    ELSE [err |-> r.err, metadata |-> metadata]

\* the try/catch around #processMetadataValue, r being its outcome
processedValue(mapping, i, input, metadata, value, r) ==
    IF r.err = NoError
    THEN Only({ processEntries(mapping, i + 1, input, m) :
                    m \in {Put(metadata, mapping[i].id, r.val)} })
    ELSE IF r.err.name = "InvalidDataSourceOptionError"
    THEN [err |-> r.err, metadata |-> metadata]
    ELSE [err |-> FailedToProcessMetadataValueError(value, mapping[i].id, r.err),
          metadata |-> metadata]

\* a plausible slip: a blank value is processed like any other
processEntry_noSkip(mapping, i, input, metadata, value) ==
    Only({ processedValue(mapping, i, input, metadata, value, r) :
               r \in {processMetadataValue(lookupFieldSchema(mapping[i].id), value)} })

\* one turn of the loop, value being the trimmed value of the column
processEntry(mapping, i, input, metadata, value) ==
    IF value = <<>> THEN processEntries(mapping, i + 1, input, metadata)
    ELSE Only({ processedValue(mapping, i, input, metadata, value, r) :
                    r \in {processMetadataValue(lookupFieldSchema(mapping[i].id), value)} })

processEntries(mapping, i, input, metadata) ==
    IF i > Len(mapping) THEN [err |-> NoError, metadata |-> metadata]
    ELSE IF mapping[i].col \notin DOMAIN input
    THEN [err |-> TrimNotAFunctionError(mapping[i].col), metadata |-> metadata]
    ELSE Only({ processEntry(mapping, i, input, metadata, value) :
                    value \in {trim(input[mapping[i].col])} })

\* the outcome of process():
\*   err       the error thrown, NoError when the call returns
\*   metadata  upload_options.metadata after the call
\*   returned  "undefined" when the call returns (the method has no return
\*             statement), "nothing" when it throws
Thrown(err, upload) == [err |-> err, metadata |-> upload, returned |-> "nothing"]

\* a plausible slip: the loop writes into upload_options.metadata itself
\* instead of a copy, so an error leaves the earlier writes behind
processed_writesInPlace(upload, r) ==
    [err      |-> r.err,
     metadata |-> IF DOMAIN r.metadata # {}
                  THEN [present |-> TRUE, m |-> r.metadata]
                  ELSE upload,
     returned |-> IF r.err = NoError THEN "undefined" ELSE "nothing"]

\* the end of process(), r being the outcome of its for loop: the copy
\* replaces upload_options.metadata if the loop ended and the copy has a key
processed(upload, r) ==
    IF r.err # NoError THEN Thrown(r.err, upload)
    ELSE [err      |-> NoError,
          metadata |-> IF DOMAIN r.metadata # {}
                       THEN [present |-> TRUE, m |-> r.metadata]
                       ELSE upload,
          returned |-> "undefined"]

\* a plausible slip: the values are collected in a fresh object, not in a
\* copy of upload_options.metadata
validated_freshMetadata(upload, input, opts, invalid) ==
    IF invalid # NoError THEN Thrown(invalid, upload)
    ELSE Only({ processed(upload, r) :
                    r \in {processEntries(opts.mapping, 1, input, EmptyObject)} })

validated(upload, input, opts, invalid) ==
    IF invalid # NoError THEN Thrown(invalid, upload)
    ELSE Only({ processed(upload, r) :
                    r \in {processEntries(opts.mapping, 1, input, upload.m)} })

\* process(upload_options, input_fields, options)
process(upload, input, opts) ==
    IF opts.kind \in {"null", "noMapping"}
    THEN Thrown(InvalidMappingError("Mapping configuration is required", ""), upload)
    ELSE Only({ validated(upload, input, opts, invalid) :
                    invalid \in {validateMapping(opts, input)} })

(***************************************************************************)
(* The CSV columns and structured metadata fields of the default payload   *)
(***************************************************************************)
FileColumn == "File Path or URL CSV Column Name"
PublicIdColumn == "Asset Public_ID CSV Column Name"
FieldAColumn == "SMD Field A CSV Column Name"
TextColumn == "SMD Text CSV Column Name"
NumColumn == "SMD Num CSV Column Name"
DateColumn == "SMD Date CSV Column Name"
SslColumn == "SMD SSL CSV Column Name"
MslColumn == "SMD MSL CSV Column Name"

FieldA == "smd_field_external_id_a"
TextField == "smd_text_field_external_id"
NumField == "smd_num_field_external_id"
DateField == "smd_date_field_external_id"
SslField == "smd_ssl_field_external_id"
MslField == "smd_msl_field_external_id"

(***************************************************************************)
(* Inputs of the mapper explored by the model                              *)
(***************************************************************************)
\* the options of a select field: the label of the first collides, ignoring
\* case, with the identifier of the second; the third is inactive
SelectOptions ==
    << [external_id |-> <<"a">>, value |-> <<"B">>,      state |-> "active"],
       [external_id |-> <<"b">>, value |-> <<"X", "b">>, state |-> "active"],
       [external_id |-> <<"c">>, value |-> <<"C", "x">>, state |-> "inactive"] >>

\* options of which two active ones carry the same label ignoring case, after
\* an inactive one that carries it too
SameLabelOptions ==
    << [external_id |-> <<"c">>, value |-> <<"q">>, state |-> "inactive"],
       [external_id |-> <<"a">>, value |-> <<"Q">>, state |-> "active"],
       [external_id |-> <<"b">>, value |-> <<"q">>, state |-> "active"] >>

Datasources == {SelectOptions, SameLabelOptions}

\* what cloudinary.api.list_metadata_fields() answers: one field per supported
\* type and one of a type the mapper does not know
MetadataFieldsWith(values) ==
    << [external_id |-> MslField,    type |-> "set",     datasource |-> values],
       [external_id |-> SslField,    type |-> "enum",    datasource |-> values],
       [external_id |-> DateField,   type |-> "date",    datasource |-> <<>>],
       [external_id |-> NumField,    type |-> "integer", datasource |-> <<>>],
       [external_id |-> TextField,   type |-> "string",  datasource |-> <<>>],
       [external_id |-> "smd_other", type |-> "boolean", datasource |-> <<>>] >>

MetadataFields == MetadataFieldsWith(SelectOptions)

NotInitialized == [init |-> FALSE, fields |-> <<>>]

Entry(col, id) == [col |-> col, id |-> id]

\* options with a mapping object and a separator
MappingWith(entries, separator) ==
    [kind |-> "object", mapping |-> entries, separator |-> separator]

\* options with a mapping object and no separator
ObjectMapping(entries) == MappingWith(entries, "none")

OptionsChoices ==
    { [kind |-> "null", mapping |-> <<>>, separator |-> "none"],
      [kind |-> "noMapping", mapping |-> <<>>, separator |-> "none"],
      [kind |-> "notObject", mapping |-> <<>>, separator |-> "none"],
      ObjectMapping(<<>>),
      MappingWith(<<Entry(MslColumn, MslField)>>, ";"),
      ObjectMapping(<<Entry(SslColumn, SslField)>>),
      ObjectMapping(<<Entry(MslColumn, MslField)>>),
      ObjectMapping(<<Entry(DateColumn, DateField)>>),
      ObjectMapping(<<Entry(TextColumn, NumField)>>),
      ObjectMapping(<<Entry(TextColumn, "smd_other")>>),
      ObjectMapping(<<Entry(TextColumn, TextField), Entry(SslColumn, SslField)>>),
      ObjectMapping(<<Entry(TextColumn, TextField), Entry(MslColumn, MslField)>>),
      ObjectMapping(<<Entry(TextColumn, TextField), Entry(DateColumn, DateField)>>),
      ObjectMapping(<<Entry(SslColumn, SslField), Entry(TextColumn, "smd_other")>>),
      ObjectMapping(<<Entry(TextColumn, TextField), Entry(SslColumn, TextField)>>),
      ObjectMapping(<<Entry(TextColumn, TextField), Entry("Missing", SslField)>>),
      ObjectMapping(<<Entry("toString", TextField)>>),
      ObjectMapping(<<Entry(TextColumn, TextField), Entry(SslColumn, "does_not_exist")>>),
      ObjectMapping(<<Entry("Missing", "does_not_exist"), Entry(SslColumn, "does_not_exist")>>) }

SslValues == { <<>>, <<" ">>, <<"a">>, <<"B">>, <<" ", "x", "B", " ">>, <<"q">>, <<"c">> }

MslValues ==
    { <<>>, <<"x", "b", ",", " ", "a">>, <<"a", ",", "q", ",", "c">>, <<"b", ",", ",", "b">>,
      <<"a", ";", "b">>, <<"a", ",", "a">>, <<",", "a">>, <<"a", ",">> }

DateValues ==
    { <<>>,
      <<"2","0","2","4","/","1","2","/","2","5"," ","1","2",":","3","0",":","4","2">>,
      <<"2","0","2","4","/","1","2","/","2","5"," ","0","2",":","3","0",":","4","2">>,
      <<"2","0","2","4","-","0","3","-","0","1">>,
      <<"2","0","2","4","1","2","2","5","-","1","2","3","0","4","2">> }

TextValues == { <<" ">>, <<"x">> }

InputChoices ==
    { [c \in {SslColumn, MslColumn, DateColumn, TextColumn} |->
          CASE c = SslColumn  -> ssl
            [] c = MslColumn  -> msl
            [] c = DateColumn -> date
            [] c = TextColumn -> text] :
      ssl \in SslValues, msl \in MslValues, date \in DateValues, text \in TextValues }

\* upload_options.metadata before the call: absent, empty, or holding an
\* entry of a mapped field and an entry of a field no mapping touches
UploadChoices ==
    { AbsentMetadata,
      [present |-> TRUE, m |-> EmptyObject],
      [present |-> TRUE,
       m |-> [k \in {TextField, FieldA} |-> StringValue(<<"q">>)]] }

TimeZones == {0, 9}

NoCall ==
    [made |-> FALSE, initialised |-> FALSE, before |-> AbsentMetadata, err |-> NoError,
     returned |-> "nothing"]


(***************************************************************************)
(* Plugin manager                                                          *)
(*                                                                         *)
(* A file of the plugins folder is [name, suffix, exports]: its base name, *)
(* the suffix of its file name, and what the module exports:               *)
(*   "mapper"     the structured metadata mapper                           *)
(*   "valid"      some other plugin with both hooks                        *)
(*   "noPlugin"   no plugin object                                         *)
(*   "noInit"     a plugin object without an init_Async function           *)
(*   "noProcess"  a plugin object without a process_Async function         *)
(***************************************************************************)
File(name, suffix, exports) == [name |-> name, suffix |-> suffix, exports |-> exports]

smdPluginName == "cld-structured-metadata-mapper"

MapperFile == File(smdPluginName, ".js", "mapper")

PluginsFolderChoices ==
    { \* the folder as shipped
      << File("README", ".md", "noPlugin"),
         MapperFile,
         File(smdPluginName, ".test.js", "noPlugin") >>,
      \* a second plugin after the mapper
      << MapperFile, File("my-awesome-plugin", ".js", "valid") >>,
      \* invalid plugin files, before and after the mapper
      << File("broken", ".js", "noProcess"), MapperFile >>,
      << MapperFile, File("broken", ".js", "noInit") >>,
      << File("broken", ".js", "noPlugin") >>,
      \* no plugin at all
      << >> }

\* getValidPluginFiles: the .js files that are not .test.js files
getValidPluginFiles(folder) ==
    SelectSeq(folder, LAMBDA f : f.suffix = ".js")

\* path.basename(pluginFilePath): the name an error message quotes
FileName(file) == <<file.name, file.suffix>>

\* loadPlugins_Async not called yet.  inits lists the plugins whose
\* init_Async was called, error is the error thrown and named the file name
\* its message quotes
IdleLoader ==
    [pc |-> "idle", files |-> <<>>, next |-> 0, inits |-> <<>>, error |-> "none",
     named |-> <<>>]

AlreadyInitializedError ==
    MkError("Error", "Plugin manager has already been initialized", "", <<>>, "none")

\* no call from outside the run yet.  called tells whether loadPlugins_Async
\* has been called at all, phase where the first call of it was when the
\* last call was made
NoClientCall ==
    [called |-> FALSE, op |-> "none", name |-> "", err |-> NoError, plugin |-> "none",
     phase |-> "idle"]

NoPlugins == [n \in {} |-> "valid"]

\* getPlugin(pluginName): [err, plugin]
PluginNotFoundError(pluginName) == MkError("Error", "Plugin not found", pluginName, <<>>, "none")

\* the in operator also finds the keys _LOADED_PLUGINS inherits, whose
\* values are functions of Object.prototype
getPlugin(pluginName) ==
    IF pluginName \in DOMAIN LOADED_PLUGINS
    THEN [err |-> NoError, plugin |-> LOADED_PLUGINS[pluginName]]
    ELSE IF pluginName \in ObjectPrototype
    THEN [err |-> NoError, plugin |-> "inherited"]
    ELSE [err |-> PluginNotFoundError(pluginName), plugin |-> "none"]

\* process_Async of the mapper: the asynchronous face of process()
process_Async(upload, input, opts) == process(upload, input, opts)

(***************************************************************************)
(* Payload builder: input2ApiPayload_Async                                 *)
(***************************************************************************)
UndefinedValue == [kind |-> "undefined", s |-> <<>>, l |-> <<>>]

\* csvRec[column]
Field(csvRec, column) ==
    IF column \in DOMAIN csvRec THEN StringValue(csvRec[column]) ELSE UndefinedValue

NullPayload ==
    [isNull |-> TRUE, file |-> UndefinedValue, public_id |-> UndefinedValue,
     metadata |-> AbsentMetadata]

NullTrace == [isNull |-> TRUE, list |-> <<>>]

\* the options applyStructuredMetadataMapperPlugin_Async hands to the mapper
smdMapperOptions ==
    MappingWith(<< Entry(TextColumn, TextField), Entry(NumColumn, NumField),
                   Entry(DateColumn, DateField), Entry(SslColumn, SslField),
                   Entry(MslColumn, MslField) >>, ",")

\* applyStructuredMetadataMapperPlugin_Async(options, csvRec):
\* [err, metadata, trace]
applied(r) ==
    IF r.err # NoError
    THEN [err |-> r.err, metadata |-> r.metadata, trace |-> <<>>]
    ELSE [err      |-> NoError,
          metadata |-> r.metadata,
          trace    |-> <<[name |-> smdPluginName, trace |-> r.returned]>>]

applyStructuredMetadataMapperPlugin_Async(metadata, csvRec) ==
    IF getPlugin(smdPluginName).err # NoError
    THEN [err |-> getPlugin(smdPluginName).err, metadata |-> metadata, trace |-> <<>>]
    ELSE Only({ applied(r) : r \in {process_Async(metadata, csvRec, smdMapperOptions)} })

\* input2ApiPayload_Async(csvRec): [err, payload, plugins_trace].  Of the
\* options only public_id and metadata are kept: the others are constants or
\* columns copied through.
built(csvRec, a) ==
    IF a.err # NoError
    THEN [err |-> a.err, payload |-> NullPayload, plugins_trace |-> NullTrace]
    ELSE [err     |-> NoError,
          payload |-> [isNull    |-> FALSE,
                       file      |-> Field(csvRec, FileColumn),
                       public_id |-> Field(csvRec, PublicIdColumn),
                       metadata  |-> a.metadata],
          plugins_trace |-> [isNull |-> FALSE, list |-> a.trace]]

input2ApiPayload_Async(csvRec) ==
    Only({ built(csvRec, a) :
               a \in {applyStructuredMetadataMapperPlugin_Async(
                          [present |-> TRUE,
                           m |-> Put(EmptyObject, FieldA, Field(csvRec, FieldAColumn))],
                          csvRec)} })

(***************************************************************************)
(* Records of a run                                                        *)
(***************************************************************************)
\* the rows of the input file: one the mapper accepts, one whose
\* single-select value is not an option of the field
GoodRow ==
    (FileColumn :> <<"f">>) @@ (PublicIdColumn :> <<"p">>) @@ (TextColumn :> <<"x">>)
    @@ (NumColumn :> <<>>) @@ (DateColumn :> <<>>) @@ (SslColumn :> <<"B">>)
    @@ (MslColumn :> <<>>)

BadRow == [GoodRow EXCEPT ![SslColumn] = <<"q">>]

Rows == {GoodRow, BadRow}

CsvChoices == UNION { [1..n -> Rows] : n \in 0..MaxRecords }

\* what the remote operation (payloadModule.payloadFunc_Async) answers
NullResponse ==
    [isNull |-> TRUE, public_id |-> <<>>, etag |-> <<>>, existing |-> FALSE,
     overwritten |-> FALSE]

Responses ==
    { [isNull |-> FALSE, public_id |-> <<"p">>, etag |-> <<"e">>, existing |-> e,
       overwritten |-> o] : e \in BOOLEAN, o \in BOOLEAN }

\* what it throws: the SDK's network timeout
RemoteErrors == { MkError("TimeoutError", "Request Timeout", "", <<>>, "none") }

\* what reading the CSV file raises
CsvReadError == MkError("Error", "Invalid Record Length", "", <<>>, "none")

ZeroStats == [concurrent |-> 0, attempted |-> 0, succeeded |-> 0, failed |-> 0]

\* a line of the log file.  rec is the position of the input record in the
\* file; it is not written, it tells two equal rows apart.
PayloadRecord(rec, input, payload, response, summary, plugins_trace) ==
    [flow |-> "payload", msg |-> "", rec |-> rec, input |-> input, payload |-> payload,
     response |-> response, summary |-> summary, plugins_trace |-> plugins_trace,
     stats |-> ZeroStats]

ScriptRecord(msg, st) ==
    [flow |-> "script", msg |-> msg, rec |-> 0, input |-> EmptyObject,
     payload |-> NullPayload, response |-> NullResponse,
     summary |-> [status |-> "", err |-> NoError], plugins_trace |-> NullTrace,
     stats |-> st]

IdleWorker ==
    [pc |-> "notStarted", payload |-> NullPayload, plugins_trace |-> NullTrace,
     result |-> "pending"]

NoHistory == [runs |-> 0, calls |-> 0, threw |-> NoError, stage |-> "none"]

NullOptions == [kind |-> "null", mapping |-> <<>>, separator |-> "none"]

(***************************************************************************)
(* The state a run starts from                                             *)
(***************************************************************************)
Init ==
    /\ metadata_structure = NotInitialized
    /\ tzOffset \in TimeZones
    /\ upload_options = AbsentMetadata
    /\ input_fields = EmptyObject
    /\ options = NullOptions
    /\ call = NoCall
    /\ cloudConfigured \in BOOLEAN
    /\ pluginsFolder \in PluginsFolderChoices
    /\ csv \in CsvChoices
    /\ maxConcurrentUploads \in 1..MaxLimit
    /\ IS_INITIALIZED = FALSE
    /\ LOADED_PLUGINS = NoPlugins
    /\ loader = IdleLoader
    /\ client = NoClientCall
    /\ mainPc = "start"
    /\ stats = ZeroStats
    /\ log = <<>>
    /\ report = [made |-> FALSE, rows |-> <<>>]
    /\ generator = [yielded |-> 0, state |-> "open"]
    /\ mapLimit = [called |-> FALSE, running |-> 0, awaiting |-> FALSE, done |-> FALSE,
                   settled |-> "pending"]
    /\ worker = [i \in 1..Len(csv) |-> IdleWorker]
    /\ history = [i \in 1..Len(csv) |-> NoHistory]

(***************************************************************************)
(* loopOverCsvInput_Async up to the start of the loop                      *)
(***************************************************************************)
\* ensureCloudinaryConfigOrExit_Async
EnsureCloudinaryConfigOrExit ==
    /\ mainPc = "start"
    /\ mainPc' = IF cloudConfigured THEN "callLoadPlugins" ELSE "exited"
    /\ UNCHANGED <<mapperVars, envVars, pluginVars, stats, log, report, generator,
                   mapLimit, worker, history>>

\* loadPlugins_Async up to its for loop
LoadPlugins_Call ==
    /\ mainPc = "callLoadPlugins"
    /\ mainPc' = "awaitLoadPlugins"
    /\ IF IS_INITIALIZED
       THEN /\ loader' = [loader EXCEPT !.pc = "threw", !.error = "already initialized"]
            /\ UNCHANGED IS_INITIALIZED
       ELSE /\ IS_INITIALIZED' = TRUE
            /\ loader' = [loader EXCEPT !.pc = "loop",
                                        !.files = getValidPluginFiles(pluginsFolder),
                                        !.next = 1]
    /\ UNCHANGED <<mapperVars, envVars, LOADED_PLUGINS, client, stats, log, report,
                   generator, mapLimit, worker, history>>

\* an older manager looked for the init function only
LoadPlugins_NextFile_initOnly ==
    /\ loader.pc = "loop"
    /\ IF loader.next > Len(loader.files)
       THEN loader' = [loader EXCEPT !.pc = "returned"]
       ELSE LET file == loader.files[loader.next]
            IN  IF file.exports \in {"noPlugin", "noInit"}
                THEN loader' = [loader EXCEPT !.pc = "threw", !.error = "no init_Async",
                                              !.named = FileName(file)]
                ELSE loader' = [loader EXCEPT !.pc = "init",
                                              !.inits = Append(@, file.name)]
    /\ UNCHANGED <<mapperVars, envVars, IS_INITIALIZED, LOADED_PLUGINS, client, engineVars>>

\* one turn of the for loop up to the await of init_Async
LoadPlugins_NextFile ==
    /\ loader.pc = "loop"
    /\ IF loader.next > Len(loader.files)
       THEN loader' = [loader EXCEPT !.pc = "returned"]
       ELSE LET file == loader.files[loader.next]
            IN  IF file.exports \in {"noPlugin", "noInit"}
                THEN loader' = [loader EXCEPT !.pc = "threw", !.error = "no init_Async",
                                              !.named = FileName(file)]
                ELSE IF file.exports = "noProcess"
                THEN loader' = [loader EXCEPT !.pc = "threw", !.error = "no process_Async",
                                              !.named = FileName(file)]
                ELSE loader' = [loader EXCEPT !.pc = "init",
                                              !.inits = Append(@, file.name)]
    /\ UNCHANGED <<mapperVars, envVars, IS_INITIALIZED, LOADED_PLUGINS, client, engineVars>>

\* init_Async of the plugin resolves: the plugin is registered.  The mapper's
\* init_Async has fetched the metadata fields by then.
LoadPlugins_InitResolved ==
    /\ loader.pc = "init"
    /\ LET file == loader.files[loader.next]
       IN  /\ LOADED_PLUGINS' = Put(LOADED_PLUGINS, file.name, file.exports)
           /\ metadata_structure' =
                  IF file.exports = "mapper"
                  THEN [init |-> TRUE, fields |-> MetadataFields]
                  ELSE metadata_structure
    /\ loader' = [loader EXCEPT !.pc = "loop", !.next = @ + 1]
    /\ UNCHANGED <<tzOffset, upload_options, input_fields, options, call, envVars,
                   IS_INITIALIZED, client, engineVars>>

\* an older manager logged the failure and went on with the next file
LoadPlugins_InitRejected_goesOn ==
    /\ loader.pc = "init"
    /\ loader' = [loader EXCEPT !.pc = "loop", !.next = @ + 1,
                                !.error = "init_Async threw"]
    /\ UNCHANGED <<mapperVars, envVars, IS_INITIALIZED, LOADED_PLUGINS, client, engineVars>>

\* a plausible slip: the plugin is registered before its init_Async is awaited
LoadPlugins_InitRejected_registered ==
    /\ loader.pc = "init"
    /\ loader' = [loader EXCEPT !.pc = "threw", !.error = "init_Async threw"]
    /\ LOADED_PLUGINS' = Put(LOADED_PLUGINS, loader.files[loader.next].name,
                             loader.files[loader.next].exports)
    /\ UNCHANGED <<mapperVars, envVars, IS_INITIALIZED, client, engineVars>>

\* init_Async of the plugin rejects: the error is logged and thrown again
LoadPlugins_InitRejected ==
    /\ loader.pc = "init"
    /\ loader' = [loader EXCEPT !.pc = "threw", !.error = "init_Async threw"]
    /\ UNCHANGED <<mapperVars, envVars, IS_INITIALIZED, LOADED_PLUGINS, client, engineVars>>

\* await loadPlugins_Async(...) throws: the function rejects
Main_LoadPluginsFailed ==
    /\ mainPc = "awaitLoadPlugins"
    /\ loader.pc = "threw"
    /\ mainPc' = "rejected"
    /\ UNCHANGED <<mapperVars, envVars, pluginVars, stats, log, report, generator,
                   mapLimit, worker, history>>

\* await loadPlugins_Async(...) returns
Main_LoadPluginsDone ==
    /\ mainPc = "awaitLoadPlugins"
    /\ loader.pc = "returned"
    /\ mainPc' = "confirm"
    /\ UNCHANGED <<mapperVars, envVars, pluginVars, stats, log, report, generator,
                   mapLimit, worker, history>>

\* replenish() of async's eachOfLimit over an async generator: asks the
\* generator for the next record unless the limit is reached, a request is
\* outstanding or the iteration is over
replenish_ignoresLimit(ml) ==
    IF ml.awaiting \/ ml.done THEN ml ELSE [ml EXCEPT !.awaiting = TRUE]

\* a plausible slip: the next record is pulled only once nothing is running
replenish_waitsForAll(ml) ==
    IF ml.running > 0 \/ ml.awaiting \/ ml.done
    THEN ml
    ELSE [ml EXCEPT !.awaiting = TRUE]

replenish(ml) ==
    IF ml.running >= maxConcurrentUploads \/ ml.awaiting \/ ml.done
    THEN ml
    ELSE [ml EXCEPT !.awaiting = TRUE]

\* callback(err) of eachOfLimit, wrapped in once(): only the first call
\* settles the promise mapLimit returned
callback(ml, outcome) ==
    IF ml.settled = "pending" THEN [ml EXCEPT !.settled = outcome] ELSE ml

\* confirmOperationOptionsOrExit_Async throws: process.exit(1)
Main_NotConfirmed ==
    /\ mainPc = "confirm"
    /\ mainPc' = "exited"
    /\ log' = Append(log, ScriptRecord("Migration parameters not confirmed. Terminating",
                                       ZeroStats))
    /\ UNCHANGED <<mapperVars, envVars, pluginVars, stats, report, generator, mapLimit,
                   worker, history>>

\* the operator confirms: the statistics are zeroed, the generator is made
\* and async.mapLimit is called, which calls replenish()
Main_Confirmed ==
    /\ mainPc = "confirm"
    /\ mainPc' = "mapLimit"
    /\ log' = Append(log, ScriptRecord(
                  "Migration parameters confirmed. Starting migration routine", ZeroStats))
    /\ stats' = ZeroStats
    /\ mapLimit' = replenish([mapLimit EXCEPT !.called = TRUE])
    /\ UNCHANGED <<mapperVars, envVars, pluginVars, report, generator, worker, history>>


(***************************************************************************)
(* The loop: async.mapLimit(generator, maxConcurrentUploads, worker)       *)
(***************************************************************************)
\* a plausible slip: attempted is counted after the payload is built
StartWorker_countsLater(i) ==
    /\ stats' = [stats EXCEPT !.concurrent = @ + 1]
    /\ worker' = [worker EXCEPT ![i].pc = "build"]
    /\ history' = [history EXCEPT ![i].runs = @ + 1]

\* the synchronous start of the worker for record i: the two counters are
\* raised and input2ApiPayload_Async is called and awaited
StartWorker(i) ==
    /\ stats' = [stats EXCEPT !.concurrent = @ + 1, !.attempted = @ + 1]
    /\ worker' = [worker EXCEPT ![i].pc = "build"]
    /\ history' = [history EXCEPT ![i].runs = @ + 1]

\* generator.next() resolves with a record: the record is handed to a new
\* worker and replenish() is called
Generator_Yields ==
    /\ mapLimit.awaiting
    /\ generator.state = "open"
    /\ generator.yielded < Len(csv)
    /\ generator' = [generator EXCEPT !.yielded = @ + 1]
    /\ StartWorker(generator.yielded + 1)
    /\ mapLimit' = replenish([mapLimit EXCEPT !.awaiting = FALSE, !.running = @ + 1])
    /\ UNCHANGED <<mapperVars, envVars, pluginVars, mainPc, log, report>>

\* a plausible slip: the iteration is declared complete as soon as the
\* generator is exhausted, whatever is still running
Generator_Ends_early ==
    /\ mapLimit.awaiting
    /\ generator.state = "open"
    /\ generator.yielded = Len(csv)
    /\ generator' = [generator EXCEPT !.state = "done"]
    /\ mapLimit' = callback([mapLimit EXCEPT !.awaiting = FALSE, !.done = TRUE], "resolved")
    /\ UNCHANGED <<mapperVars, envVars, pluginVars, mainPc, stats, log, report, worker,
                   history>>

\* generator.next() resolves with done: the iteration is over once nothing
\* is running any more
Generator_Ends ==
    /\ mapLimit.awaiting
    /\ generator.state = "open"
    /\ generator.yielded = Len(csv)
    /\ generator' = [generator EXCEPT !.state = "done"]
    /\ LET ml == [mapLimit EXCEPT !.awaiting = FALSE, !.done = TRUE]
       IN  mapLimit' = IF ml.running <= 0 THEN callback(ml, "resolved") ELSE ml
    /\ UNCHANGED <<mapperVars, envVars, pluginVars, mainPc, stats, log, report, worker,
                   history>>

\* a plausible slip: a read error is taken for the end of the input
Generator_Raises_swallowed ==
    /\ mapLimit.awaiting
    /\ generator.state = "open"
    /\ generator' = [generator EXCEPT !.state = "failed"]
    /\ LET ml == [mapLimit EXCEPT !.awaiting = FALSE, !.done = TRUE]
       IN  mapLimit' = IF ml.running <= 0 THEN callback(ml, "resolved") ELSE ml
    /\ UNCHANGED <<mapperVars, envVars, pluginVars, mainPc, stats, log, report, worker,
                   history>>

\* generator.next() rejects (the file cannot be read or parsed): handleError
Generator_Raises ==
    /\ mapLimit.awaiting
    /\ generator.state = "open"
    /\ generator' = [generator EXCEPT !.state = "failed"]
    /\ mapLimit' = callback([mapLimit EXCEPT !.awaiting = FALSE, !.done = TRUE], "rejected")
    /\ UNCHANGED <<mapperVars, envVars, pluginVars, mainPc, stats, log, report, worker,
                   history>>

\* a plausible slip: no catch block, the finally block alone
CatchAndFinally_noCatch(i, err, payload, plugins_trace) ==
    /\ stats' = [stats EXCEPT !.concurrent = @ - 1]
    /\ log' = Append(log, PayloadRecord(i, csv[i], payload, NullResponse,
                                        [status |-> "MIGRATED", err |-> NoError],
                                        plugins_trace))
    /\ worker' = [worker EXCEPT ![i].pc = "returned", ![i].result = "rejected"]

\* a plausible slip: the catch block records the error and leaves the status
CatchAndFinally_keepsStatus(i, err, payload, plugins_trace) ==
    /\ stats' = [stats EXCEPT !.failed = @ + 1, !.concurrent = @ - 1]
    /\ log' = Append(log, PayloadRecord(i, csv[i], payload, NullResponse,
                                        [status |-> "MIGRATED", err |-> err],
                                        plugins_trace))
    /\ worker' = [worker EXCEPT ![i].pc = "returned", ![i].result = "resolved"]

\* the catch and finally blocks of the worker for record i
\* a plausible slip: the failure is logged but not counted
CatchAndFinally_notCounted(i, err, payload, plugins_trace) ==
    /\ stats' = [stats EXCEPT !.concurrent = @ - 1]
    /\ log' = Append(log, PayloadRecord(i, csv[i], payload, NullResponse,
                                        [status |-> "FAILED", err |-> err],
                                        plugins_trace))
    /\ worker' = [worker EXCEPT ![i].pc = "returned", ![i].result = "resolved"]

CatchAndFinally(i, err, payload, plugins_trace) ==
    /\ stats' = [stats EXCEPT !.failed = @ + 1, !.concurrent = @ - 1]
    /\ log' = Append(log, PayloadRecord(i, csv[i], payload, NullResponse,
                                        [status |-> "FAILED", err |-> err],
                                        plugins_trace))
    /\ worker' = [worker EXCEPT ![i].pc = "returned", ![i].result = "resolved"]

\* await input2ApiPayload_Async(input) settles, b being its outcome: when it
\* returns, the remote operation is called with the payload and awaited; when
\* it throws, the catch and finally blocks run
Worker_Built(i, b) ==
    IF b.err = NoError
    THEN /\ worker' = [worker EXCEPT ![i].pc = "call",
                                     ![i].payload = b.payload,
                                     ![i].plugins_trace = b.plugins_trace]
         /\ history' = [history EXCEPT ![i].calls = @ + 1]
         /\ UNCHANGED <<stats, log>>
    ELSE /\ CatchAndFinally(i, b.err, NullPayload, NullTrace)
         /\ history' = [history EXCEPT ![i].threw = b.err, ![i].stage = "build"]

Worker_BuildSettles(i) ==
    /\ worker[i].pc = "build"
    /\ \E b \in {input2ApiPayload_Async(csv[i])} : Worker_Built(i, b)
    /\ UNCHANGED <<mapperVars, envVars, pluginVars, mainPc, report, generator, mapLimit>>

\* await payloadFunc_Async(payload) returns: the try block ends, then the
\* finally block
\* a plausible slip: the success is logged but not counted
Worker_CallReturns_notCounted(i) ==
    /\ worker[i].pc = "call"
    /\ \E response \in Responses :
          log' = Append(log, PayloadRecord(i, csv[i], worker[i].payload, response,
                                           [status |-> "MIGRATED", err |-> NoError],
                                           worker[i].plugins_trace))
    /\ stats' = [stats EXCEPT !.concurrent = @ - 1]
    /\ worker' = [worker EXCEPT ![i].pc = "returned", ![i].result = "resolved"]
    /\ UNCHANGED <<mapperVars, envVars, pluginVars, mainPc, report, generator, mapLimit,
                   history>>

\* a plausible slip: the slot is given back and the outcome is not written
Worker_CallReturns_releasesUnwritten(i) ==
    /\ worker[i].pc = "call"
    /\ stats' = [stats EXCEPT !.succeeded = @ + 1, !.concurrent = @ - 1]
    /\ worker' = [worker EXCEPT ![i].pc = "returned", ![i].result = "resolved"]
    /\ UNCHANGED <<mapperVars, envVars, pluginVars, mainPc, report, generator, mapLimit,
                   history, log>>

Worker_CallReturns(i) ==
    /\ worker[i].pc = "call"
    /\ \E response \in Responses :
          log' = Append(log, PayloadRecord(i, csv[i], worker[i].payload, response,
                                           [status |-> "MIGRATED", err |-> NoError],
                                           worker[i].plugins_trace))
    /\ stats' = [stats EXCEPT !.succeeded = @ + 1, !.concurrent = @ - 1]
    /\ worker' = [worker EXCEPT ![i].pc = "returned", ![i].result = "resolved"]
    /\ UNCHANGED <<mapperVars, envVars, pluginVars, mainPc, report, generator, mapLimit,
                   history>>

\* a plausible slip: a failed remote call is tried once more
Worker_CallThrows_retries(i) ==
    /\ worker[i].pc = "call"
    /\ history[i].calls < 2
    /\ history' = [history EXCEPT ![i].calls = @ + 1]
    /\ UNCHANGED <<mapperVars, envVars, pluginVars, mainPc, stats, log, report, generator,
                   mapLimit, worker>>

\* await payloadFunc_Async(payload) throws
Worker_CallThrows(i) ==
    /\ worker[i].pc = "call"
    /\ \E err \in RemoteErrors :
          /\ CatchAndFinally(i, err, worker[i].payload, worker[i].plugins_trace)
          /\ history' = [history EXCEPT ![i].threw = err, ![i].stage = "call"]
    /\ UNCHANGED <<mapperVars, envVars, pluginVars, mainPc, report, generator, mapLimit>>

\* a plausible slip: a finished worker frees its slot and nobody asks for the
\* next record
IterateeCallback_noReplenish(i) ==
    /\ worker[i].pc = "returned"
    /\ worker' = [worker EXCEPT ![i].pc = "done"]
    /\ LET ml == [mapLimit EXCEPT !.running = @ - 1]
       IN  mapLimit' = IF ml.done /\ ml.running <= 0 THEN callback(ml, "resolved") ELSE ml
    /\ UNCHANGED <<mapperVars, envVars, pluginVars, mainPc, stats, log, report, generator,
                   history>>

\* iterateeCallback of eachOfLimit, called when the worker's promise settles
IterateeCallback(i) ==
    /\ worker[i].pc = "returned"
    /\ worker' = [worker EXCEPT ![i].pc = "done"]
    /\ LET ml == [mapLimit EXCEPT !.running = @ - 1]
       IN  mapLimit' =
               IF worker[i].result = "rejected"
               THEN callback([ml EXCEPT !.awaiting = FALSE, !.done = TRUE], "rejected")
               ELSE IF ml.done /\ ml.running <= 0
               THEN callback(ml, "resolved")
               ELSE replenish(ml)
    /\ UNCHANGED <<mapperVars, envVars, pluginVars, mainPc, stats, log, report, generator,
                   history>>

(***************************************************************************)
(* loopOverCsvInput_Async after the loop                                   *)
(***************************************************************************)
\* a plausible slip: the flow of the log line is not looked at
extractMigrationFlowRecord_anyFlow(logRec) ==
    IF logRec.summary.status # "MIGRATED"
    THEN << [input |-> logRec.input, Cld_Status |-> logRec.summary.status,
             Cld_Operation |-> "null", Cld_Error |-> logRec.summary.err,
             Cld_PublicId |-> <<>>, Cld_Etag |-> <<>>] >>
    ELSE << [input |-> logRec.input, Cld_Status |-> logRec.summary.status,
             Cld_Operation |-> "Uploaded",
             Cld_Error |-> NoError,
             Cld_PublicId |-> logRec.response.public_id,
             Cld_Etag |-> logRec.response.etag] >>

\* a plausible slip: the two tests of the response in the other order, so that
\* 'existing' has the last word
extractMigrationFlowRecord_existingLast(logRec) ==
    IF logRec.flow # "payload" THEN <<>>
    ELSE IF logRec.summary.status # "MIGRATED"
    THEN << [input |-> logRec.input, Cld_Status |-> logRec.summary.status,
             Cld_Operation |-> "null", Cld_Error |-> logRec.summary.err,
             Cld_PublicId |-> <<>>, Cld_Etag |-> <<>>] >>
    ELSE << [input |-> logRec.input, Cld_Status |-> logRec.summary.status,
             Cld_Operation |-> IF logRec.response.existing
                               THEN "SkippedAlreadyExists"
                               ELSE IF logRec.response.overwritten
                                    THEN "Overwritten"
                                    ELSE "Uploaded",
             Cld_Error |-> NoError,
             Cld_PublicId |-> logRec.response.public_id,
             Cld_Etag |-> logRec.response.etag] >>

\* extractMigrationFlowRecord: the report row of a log line, as a sequence of
\* no or one row
extractMigrationFlowRecord(logRec) ==
    IF logRec.flow # "payload" THEN <<>>
    ELSE IF logRec.summary.status # "MIGRATED"
    THEN << [input |-> logRec.input, Cld_Status |-> logRec.summary.status,
             Cld_Operation |-> "null", Cld_Error |-> logRec.summary.err,
             Cld_PublicId |-> <<>>, Cld_Etag |-> <<>>] >>
    ELSE << [input |-> logRec.input, Cld_Status |-> logRec.summary.status,
             Cld_Operation |-> IF logRec.response.overwritten THEN "Overwritten"
                               ELSE IF logRec.response.existing
                                    THEN "SkippedAlreadyExists"
                                    ELSE "Uploaded",
             Cld_Error |-> NoError,
             Cld_PublicId |-> logRec.response.public_id,
             Cld_Etag |-> logRec.response.etag] >>

\* log2Report: the rows of the report, in the order of the log
RECURSIVE log2Report(_)
log2Report(lines) ==
    IF lines = <<>> THEN <<>>
    ELSE extractMigrationFlowRecord(Head(lines)) \o log2Report(Tail(lines))

\* await async.mapLimit(...) returns: 'Routine complete' is logged with the
\* statistics and produceMigrationReport_Async is called
Main_RoutineComplete ==
    /\ mainPc = "mapLimit"
    /\ mapLimit.settled = "resolved"
    /\ log' = Append(log, ScriptRecord("Routine complete", stats))
    /\ mainPc' = "report"
    /\ UNCHANGED <<mapperVars, envVars, pluginVars, stats, report, generator, mapLimit,
                   worker, history>>

\* await async.mapLimit(...) throws: the function rejects
Main_LoopFailed ==
    /\ mainPc = "mapLimit"
    /\ mapLimit.settled = "rejected"
    /\ mainPc' = "rejected"
    /\ UNCHANGED <<mapperVars, envVars, pluginVars, stats, log, report, generator,
                   mapLimit, worker, history>>

\* produceMigrationReport_Async after its delay: the report is written and
\* the function returns
Main_ProduceReport ==
    /\ mainPc = "report"
    /\ report' = [made |-> TRUE, rows |-> log2Report(log)]
    /\ mainPc' = "returned"
    /\ UNCHANGED <<mapperVars, envVars, pluginVars, stats, log, generator, mapLimit,
                   worker, history>>

Next ==
    \/ EnsureCloudinaryConfigOrExit
    \/ LoadPlugins_Call
    \/ LoadPlugins_NextFile
    \/ LoadPlugins_InitResolved
    \/ LoadPlugins_InitRejected
    \/ Main_LoadPluginsFailed
    \/ Main_LoadPluginsDone
    \/ Main_NotConfirmed
    \/ Main_Confirmed
    \/ Generator_Yields
    \/ Generator_Ends
    \/ Generator_Raises
    \/ \E i \in 1..Len(csv) :
          \/ Worker_BuildSettles(i)
          \/ Worker_CallReturns(i)
          \/ Worker_CallThrows(i)
          \/ IterateeCallback(i)
    \/ Main_RoutineComplete
    \/ Main_LoopFailed
    \/ Main_ProduceReport

Spec == Init /\ [][Next]_vars

\* every continuation that is ready is run in the end, and every awaited
\* operation settles
FairSpec == Spec /\ WF_vars(Next)


(***************************************************************************)
(* The mapper driven on its own: init() and process() on chosen inputs,    *)
(* no run in progress                                                      *)
(***************************************************************************)
MapperInit ==
    /\ metadata_structure = NotInitialized
    /\ tzOffset \in TimeZones
    /\ upload_options \in UploadChoices
    /\ input_fields \in InputChoices
    /\ options \in OptionsChoices
    /\ call = NoCall
    /\ cloudConfigured = TRUE
    /\ pluginsFolder = <<>>
    /\ csv = <<>>
    /\ maxConcurrentUploads = 1
    /\ IS_INITIALIZED = FALSE
    /\ LOADED_PLUGINS = NoPlugins
    /\ loader = IdleLoader
    /\ client = NoClientCall
    /\ mainPc = "start"
    /\ stats = ZeroStats
    /\ log = <<>>
    /\ report = [made |-> FALSE, rows |-> <<>>]
    /\ generator = [yielded |-> 0, state |-> "open"]
    /\ mapLimit = [called |-> FALSE, running |-> 0, awaiting |-> FALSE, done |-> FALSE,
                   settled |-> "pending"]
    /\ worker = <<>>
    /\ history = <<>>

\* init(): the metadata fields are fetched and kept
init ==
    /\ ~metadata_structure.init
    /\ \E values \in Datasources :
          metadata_structure' = [init |-> TRUE, fields |-> MetadataFieldsWith(values)]
    /\ UNCHANGED <<tzOffset, upload_options, input_fields, options, call, envVars,
                   pluginVars, engineVars>>

\* one call of process(upload_options, input_fields, options), r being its
\* outcome
Processed(r) ==
    /\ upload_options' = r.metadata
    /\ call' = [made |-> TRUE, initialised |-> metadata_structure.init,
                before |-> upload_options, err |-> r.err, returned |-> r.returned]

\* a plausible slip: the columns the mapping names are taken out of the
\* record passed in, as processed
Process_consumesInput ==
    /\ Processed(process(upload_options, input_fields, options))
    /\ input_fields' =
          [c \in DOMAIN input_fields \
                    {options.mapping[k].col : k \in 1..Len(options.mapping)} |->
              input_fields[c]]
    /\ UNCHANGED <<metadata_structure, tzOffset, options, envVars,
                   pluginVars, engineVars>>

Process ==
    /\ Processed(process(upload_options, input_fields, options))
    /\ UNCHANGED <<metadata_structure, tzOffset, input_fields, options, envVars,
                   pluginVars, engineVars>>

MapperNext == init \/ Process

SpecMapper == MapperInit /\ [][MapperNext]_vars


(***************************************************************************)
(* The plugin manager driven on its own: loadPlugins_Async and getPlugin   *)
(* called at any moment, also while a call of loadPlugins_Async is waiting *)
(* for a plugin's init_Async                                               *)
(***************************************************************************)
\* the names getPlugin is asked for
PluginNames ==
    {smdPluginName, "my-awesome-plugin", "broken", "README", "non-existent-plugin"}
        \cup ObjectPrototype

PluginsInit ==
    /\ metadata_structure = NotInitialized
    /\ tzOffset = 0
    /\ upload_options = AbsentMetadata
    /\ input_fields = EmptyObject
    /\ options = NullOptions
    /\ call = NoCall
    /\ cloudConfigured = TRUE
    /\ pluginsFolder \in PluginsFolderChoices
    /\ csv = <<>>
    /\ maxConcurrentUploads = 1
    /\ IS_INITIALIZED = FALSE
    /\ LOADED_PLUGINS = NoPlugins
    /\ loader = IdleLoader
    /\ client = NoClientCall
    /\ mainPc = "start"
    /\ stats = ZeroStats
    /\ log = <<>>
    /\ report = [made |-> FALSE, rows |-> <<>>]
    /\ generator = [yielded |-> 0, state |-> "open"]
    /\ mapLimit = [called |-> FALSE, running |-> 0, awaiting |-> FALSE, done |-> FALSE,
                   settled |-> "pending"]
    /\ worker = <<>>
    /\ history = <<>>

\* a plausible slip: the flag is raised when the loading has ended well
Client_LoadPlugins_flagAtEnd ==
    /\ IF loader.pc = "returned"
       THEN /\ client' = [called |-> TRUE, op |-> "load", name |-> "",
                          err |-> AlreadyInitializedError, plugin |-> "none",
                          phase |-> loader.pc]
            /\ UNCHANGED <<IS_INITIALIZED, loader>>
       ELSE /\ IS_INITIALIZED' = TRUE
            /\ loader' = [loader EXCEPT !.pc = "loop",
                                        !.files = getValidPluginFiles(pluginsFolder),
                                        !.next = 1]
            /\ client' = [called |-> TRUE, op |-> "load", name |-> "", err |-> NoError,
                          plugin |-> "none", phase |-> loader.pc]
    /\ UNCHANGED <<mapperVars, envVars, LOADED_PLUGINS, engineVars>>

\* loadPlugins_Async up to its for loop, called at any moment
Client_LoadPlugins ==
    /\ IF IS_INITIALIZED
       THEN /\ client' = [called |-> TRUE, op |-> "load", name |-> "",
                          err |-> AlreadyInitializedError, plugin |-> "none",
                          phase |-> loader.pc]
            /\ UNCHANGED <<IS_INITIALIZED, loader>>
       ELSE /\ IS_INITIALIZED' = TRUE
            /\ loader' = [loader EXCEPT !.pc = "loop",
                                        !.files = getValidPluginFiles(pluginsFolder),
                                        !.next = 1]
            /\ client' = [called |-> TRUE, op |-> "load", name |-> "", err |-> NoError,
                          plugin |-> "none", phase |-> loader.pc]
    /\ UNCHANGED <<mapperVars, envVars, LOADED_PLUGINS, engineVars>>

\* getPlugin(pluginName), called at any moment
Client_GetPlugin ==
    /\ \E pluginName \in PluginNames :
          client' = [called |-> client.called, op |-> "get", name |-> pluginName,
                     err |-> getPlugin(pluginName).err,
                     plugin |-> getPlugin(pluginName).plugin,
                     phase |-> loader.pc]
    /\ UNCHANGED <<mapperVars, envVars, IS_INITIALIZED, LOADED_PLUGINS, loader, engineVars>>

PluginsNext ==
    \/ Client_LoadPlugins
    \/ LoadPlugins_NextFile
    \/ LoadPlugins_InitResolved
    \/ LoadPlugins_InitRejected
    \/ Client_GetPlugin

SpecPlugins == PluginsInit /\ [][PluginsNext]_vars


(***************************************************************************)
(* Properties of a run                                                     *)
(***************************************************************************)
Records == 1..Len(csv)

\* the payload-flow lines of the log written for record i
OutcomesOf(i) == {k \in 1..Len(log) : log[k].flow = "payload" /\ log[k].rec = i}

PayloadLines == {k \in 1..Len(log) : log[k].flow = "payload"}

\* the records whose worker has started and not finished
InFlight == {i \in Records : worker[i].pc \in {"build", "call"}}

\* the records whose remote operation call is in flight
RemoteCallsInFlight == {i \in Records : worker[i].pc = "call"}

\* the records whose payload construction or remote call threw
Threw == {i \in Records : history[i].threw # NoError}

\* 'Routine complete' has been logged
Completed == mainPc \in {"report", "returned"}

\* C1: at every moment of a run the number of workers started and not
\* finished, which is stats.concurrent, is between 0 and the concurrency
\* limit, and so is the number of remote operation calls in flight.
C1_ConcurrencyBound ==
    /\ stats.concurrent = Cardinality(InFlight)
    /\ 0 <= stats.concurrent
    /\ stats.concurrent <= maxConcurrentUploads
    /\ Cardinality(RemoteCallsInFlight) <= maxConcurrentUploads

\* the limit is reached by remote calls alone after an earlier record has
\* finished and a later one has taken its slot
C1_Witness ==
    /\ maxConcurrentUploads >= 2
    /\ Cardinality(RemoteCallsInFlight) = maxConcurrentUploads
    /\ \E i \in Records : worker[i].pc = "done"

\* C2: a run that completes has written exactly one payload-flow record per
\* input record, carrying that record as its input, and no other.
C2_ExactlyOneOutcome ==
    Completed =>
        /\ Cardinality(PayloadLines) = Len(csv)
        /\ \A i \in Records :
              \E k \in 1..Len(log) : OutcomesOf(i) = {k} /\ log[k].input = csv[i]

\* a completed run over several records, run concurrently, some of which
\* failed and some of which succeeded
C2_Witness ==
    /\ Completed
    /\ Len(csv) >= 3
    /\ maxConcurrentUploads >= 2
    /\ Threw # {}
    /\ Threw # Records
    /\ log[1].flow = "script" /\ log[2].rec # 1

\* C3: an error thrown while building the payload of a record or by its
\* remote call is caught by the record's worker: the record gets one outcome
\* record with status FAILED and that error, no worker rejects, the loop
\* rejects for no other reason than the source, and a run that completes has
\* an outcome for every record.
C3_ErrorsAreContained ==
    /\ \A i \in Threw :
          \E k \in 1..Len(log) :
              /\ OutcomesOf(i) = {k}
              /\ log[k].summary = [status |-> "FAILED", err |-> history[i].threw]
    /\ \A i \in Records : worker[i].result # "rejected"
    /\ (mapLimit.settled = "rejected" => generator.state = "failed")
    /\ (Completed => \A i \in Records : OutcomesOf(i) # {})

\* the first record failed in the remote call, the second while its payload
\* was built, and a later record was migrated all the same
C3_Witness ==
    /\ Completed
    /\ Len(csv) >= 3
    /\ history[1].stage = "call"
    /\ history[2].stage = "build"
    /\ history[3].stage = "none"

\* C4: the statistics logged with 'Routine complete' have attempted equal to
\* the number of records, succeeded + failed equal to it too, concurrent 0,
\* and failed equal to the number of records whose payload construction or
\* remote call threw.
C4_FinalStatistics ==
    \A k \in 1..Len(log) :
        log[k].msg = "Routine complete" =>
            /\ log[k].stats = stats
            /\ stats.attempted = Len(csv)
            /\ stats.succeeded + stats.failed = Len(csv)
            /\ stats.concurrent = 0
            /\ stats.failed = Cardinality(Threw)

\* a completed run in which every record failed
C4_Witness ==
    /\ Completed
    /\ Len(csv) >= 2
    /\ stats.failed = Len(csv)
    /\ \E i \in Records : history[i].stage = "call"

\* C5: once the loop has started, the run completes in the end unless the
\* source raises; and 'Routine complete' is logged only after the source is
\* exhausted and every record has finished with its outcome written.
C5_CompletesAfterAllFinished ==
    /\ (mapLimit.called ~> (Completed \/ generator.state = "failed"))
    /\ [](Completed =>
            /\ generator.state = "done"
            /\ generator.yielded = Len(csv)
            /\ \A i \in Records : worker[i].pc = "done" /\ OutcomesOf(i) # {})

\* the report of a completed run over more records than the limit
C5_Witness ==
    /\ mainPc = "returned"
    /\ report.made
    /\ Len(csv) > maxConcurrentUploads
    /\ log[Len(log)].msg = "Routine complete"

\* C6: the worker runs once for every record pulled from the source and for
\* no other; the remote operation is invoked at most once per record: once
\* when the payload was built, never when building it failed.
C6_OneRunAtMostOneCall ==
    \A i \in Records :
        /\ history[i].runs = (IF i <= generator.yielded THEN 1 ELSE 0)
        /\ history[i].calls <= 1
        /\ (worker[i].pc \in {"call", "returned", "done"} =>
               history[i].calls = (IF history[i].stage = "build" THEN 0 ELSE 1))
        /\ (worker[i].pc \in {"notStarted", "build"} => history[i].calls = 0)

\* a record whose remote call failed and one whose payload could not be
\* built, both finished
C6_Witness ==
    /\ \E i \in Records : history[i].stage = "call" /\ worker[i].pc = "done"
    /\ \E i \in Records : history[i].stage = "build" /\ worker[i].pc = "done"
    /\ mainPc = "returned"

\* C7: when plugin loading has failed or the process has exited before the
\* loop (the options were not confirmed), no record has been pulled, no
\* worker has started, no remote operation was invoked and no outcome record
\* was written.
C7_AbortBeforeProcessing ==
    (loader.error # "none" \/ mainPc = "exited") =>
        /\ ~mapLimit.called
        /\ generator.yielded = 0
        /\ \A i \in Records : worker[i].pc = "notStarted" /\ history[i] = NoHistory
        /\ PayloadLines = {}

\* the mapper's init_Async threw with records waiting in the input file
C7_Witness ==
    /\ loader.error = "init_Async threw"
    /\ loader.files[loader.next].exports = "mapper"
    /\ mainPc = "rejected"
    /\ Len(csv) >= 1

\* C8: a run whose loop has started rejects exactly when reading the source
\* raised, and then neither logs 'Routine complete' nor makes the report.
C8_RejectsOnlyOnSourceError ==
    mapLimit.called =>
        /\ (mapLimit.settled = "rejected" <=> generator.state = "failed")
        /\ (mainPc = "rejected" => generator.state = "failed")
        /\ (generator.state = "failed" =>
               /\ mainPc \in {"mapLimit", "rejected"}
               /\ ~report.made
               /\ \A k \in 1..Len(log) : log[k].msg # "Routine complete")

\* the run rejected on a source error after a record had failed without
\* rejecting it
C8_Witness ==
    /\ mainPc = "rejected"
    /\ generator.state = "failed"
    /\ \E i \in Records : history[i].threw # NoError /\ worker[i].pc = "done"

\* C9: an outcome record has status FAILED and the error thrown exactly when
\* the payload construction or the remote call of its record threw, and status
\* MIGRATED with no error otherwise; its payload is null exactly when the
\* construction failed and its response is null exactly when the record failed.
C9_OutcomeRecordShape ==
    \A k \in PayloadLines :
        LET r == log[k]
            h == history[r.rec]
        IN  /\ (r.summary.status = "FAILED" <=> h.threw # NoError)
            /\ (r.summary.status = "FAILED" =>
                   /\ r.summary.err = h.threw
                   /\ r.response = NullResponse)
            /\ (r.summary.status # "FAILED" =>
                   /\ r.summary.status = "MIGRATED"
                   /\ r.summary.err = NoError
                   /\ ~r.response.isNull)
            /\ (r.payload.isNull <=> h.stage = "build")

\* the log holds a record that failed in construction, one that failed in
\* the remote call and one that was migrated
C9_Witness ==
    /\ \E k \in PayloadLines : log[k].summary.status = "FAILED" /\ log[k].payload.isNull
    /\ \E k \in PayloadLines : log[k].summary.status = "FAILED" /\ ~log[k].payload.isNull
    /\ \E k \in PayloadLines : log[k].summary.status = "MIGRATED"

(***************************************************************************)
(* Properties of the mapper                                                *)
(***************************************************************************)
\* C10: when process() throws, upload_options.metadata is what it was before
\* the call.
C10_NoWriteOnError ==
    (call.made /\ call.err # NoError) => upload_options = call.before

\* the second pair of the mapping failed after the first had resolved to a
\* value the metadata did not hold
C10_Witness ==
    /\ call.made
    /\ call.err.name \in {"InvalidDataSourceOptionError", "FailedToProcessMetadataValueError"}
    /\ Len(options.mapping) = 2
    /\ call.err.subject = options.mapping[2].id
    /\ trim(input_fields[options.mapping[1].col]) # <<>>
    /\ options.mapping[1].id \notin DOMAIN call.before.m

\* C11: a call of process() made before init() throws NotInitializedError,
\* whatever the upload options, the input fields and the options are.
C11_NotInitializedFirst ==
    (call.made /\ ~call.initialised) => call.err = NotInitializedError

\* C12: process() throws InvalidMappingError when the options or their
\* mapping are missing, when the mapping is not an object, and when the
\* mapping holds no pair.
C12_EmptyMappingRejected ==
    (call.made /\ call.initialised /\ (options.kind # "object" \/ options.mapping = <<>>))
        => call.err.name = "InvalidMappingError"

\* the last call was made after init() with the one pair col -> id and a
\* value of col that is not blank
CallOn(col, id, separator) ==
    /\ call.made
    /\ call.initialised
    /\ options = MappingWith(<<Entry(col, id)>>, separator)
    /\ trim(input_fields[col]) # <<>>

\* the datasource of the select fields
Datasource == lookupFieldSchema(SslField).datasource

\* the active options whose identifier, or whose label, is v ignoring case
ActiveById(v) ==
    {o \in {Datasource[k] : k \in 1..Len(Datasource)} :
        o.state = "active" /\ toLowerCase(o.external_id) = toLowerCase(v)}

ActiveByLabel(v) ==
    {o \in {Datasource[k] : k \in 1..Len(Datasource)} :
        o.state = "active" /\ toLowerCase(o.value) = toLowerCase(v)}

\* C13: a single-select value resolves to the identifier of an active option
\* whose identifier is the trimmed value ignoring case if there is one,
\* otherwise to that of an active option whose label is; otherwise
\* InvalidDataSourceOptionError names the value and the field.  What is
\* written is never the identifier of an inactive option.
C13_SingleSelectResolution ==
    CallOn(SslColumn, SslField, "none") =>
        LET v == trim(input_fields[SslColumn])
        IN  /\ ActiveById(v) # {} =>
                  /\ call.err = NoError
                  /\ \E o \in ActiveById(v) :
                         upload_options.m[SslField] = StringValue(o.external_id)
            /\ (ActiveById(v) = {} /\ ActiveByLabel(v) # {}) =>
                  /\ call.err = NoError
                  /\ \E o \in ActiveByLabel(v) :
                         upload_options.m[SslField] = StringValue(o.external_id)
            /\ (ActiveById(v) = {} /\ ActiveByLabel(v) = {}) =>
                  call.err = InvalidDataSourceOptionError(v, SslField)
            /\ call.err = NoError =>
                  \A k \in 1..Len(Datasource) :
                      Datasource[k].state # "active" =>
                          upload_options.m[SslField] # StringValue(Datasource[k].external_id)

\* "B" is the label of option a and, ignoring case, the identifier of
\* option b: it resolved to b
C13_Witness ==
    /\ CallOn(SslColumn, SslField, "none")
    /\ input_fields[SslColumn] = <<"B">>
    /\ Datasource = SelectOptions
    /\ ActiveByLabel(<<"B">>) # {}
    /\ call.err = NoError
    /\ upload_options.m[SslField] = StringValue(<<"b">>)

\* v is the identifier of option k of the datasource, or its label in some
\* letter case, and the option is active
Names(v, k) ==
    /\ Datasource[k].state = "active"
    /\ \/ v = Datasource[k].external_id
       \/ toLowerCase(v) = toLowerCase(Datasource[k].value)

\* another active option has the identifier v ignoring case, or v is not the
\* identifier of option k and an active option listed before k has the label
\* v ignoring case
Shadowed(v, k) ==
    \/ \E j \in 1..Len(Datasource) :
          /\ j # k
          /\ Datasource[j].state = "active"
          /\ toLowerCase(Datasource[j].external_id) = toLowerCase(v)
    \/ /\ v # Datasource[k].external_id
       /\ \E j \in 1..(k - 1) :
             /\ Datasource[j].state = "active"
             /\ toLowerCase(Datasource[j].value) = toLowerCase(v)

Seps(v, sep) == {i \in 1..Len(v) : v[i] = sep}

\* the position of the k-th separator of v; 0 stands for the one before the
\* first part, Len(v) + 1 for the one after the last
Cut(v, sep, k) ==
    IF k = 0 THEN 0
    ELSE IF k > Cardinality(Seps(v, sep)) THEN Len(v) + 1
    ELSE CHOOSE i \in Seps(v, sep) : Cardinality({j \in Seps(v, sep) : j <= i}) = k

\* the parts of v: the pieces between the separators, trimmed
PartCount(v, sep) == Cardinality(Seps(v, sep)) + 1

Part(v, sep, k) == trim(SubSeq(v, Cut(v, sep, k - 1) + 1, Cut(v, sep, k) - 1))

\* the identifiers a part may resolve to by the two-pass rule
ResolvedIds(part) ==
    IF ActiveById(part) # {} THEN {o.external_id : o \in ActiveById(part)}
    ELSE {o.external_id : o \in ActiveByLabel(part)}

\* C15: when every part of a multi-select value resolves, what is written is
\* the list of the resolved identifiers, one per part between the commas, in
\* the order of the parts in the value.
C15_MultiSelectInInputOrder ==
    CallOn(MslColumn, MslField, "none") =>
        LET v == trim(input_fields[MslColumn])
            n == PartCount(v, ",")
        IN  (\A k \in 1..n : ResolvedIds(Part(v, ",", k)) # {}) =>
                /\ call.err = NoError
                /\ upload_options.m[MslField].kind = "list"
                /\ Len(upload_options.m[MslField].l) = n
                /\ \A k \in 1..n :
                       upload_options.m[MslField].l[k] \in ResolvedIds(Part(v, ",", k))

\* "xb, a" gave b then a, although a is listed before b in the datasource
C15_Witness ==
    /\ CallOn(MslColumn, MslField, "none")
    /\ input_fields[MslColumn] = <<"x", "b", ",", " ", "a">>
    /\ Datasource[1].external_id = <<"a">>
    /\ upload_options.m[MslField] = ListValue(<< <<"b">>, <<"a">> >>)

\* the parts of v that do not resolve
Unresolved(v, sep) == {k \in 1..PartCount(v, sep) : ResolvedIds(Part(v, sep, k)) = {}}

\* C16: when a part of a multi-select value does not resolve, process()
\* throws InvalidDataSourceOptionError naming the first such part of the
\* value and the field, also when the parts before it resolved.
C16_FirstUnresolvedPartNamed ==
    CallOn(MslColumn, MslField, "none") =>
        LET v   == trim(input_fields[MslColumn])
            bad == Unresolved(v, ",")
        IN  bad # {} =>
                \E k \in bad :
                    /\ \A j \in bad : k <= j
                    /\ call.err = InvalidDataSourceOptionError(Part(v, ",", k), MslField)

\* of "a,q,c" the first part resolved, the second and the third did not: the
\* error names the second
C16_Witness ==
    /\ CallOn(MslColumn, MslField, "none")
    /\ input_fields[MslColumn] = <<"a", ",", "q", ",", "c">>
    /\ Unresolved(input_fields[MslColumn], ",") = {2, 3}
    /\ call.err.name = "InvalidDataSourceOptionError"
    /\ call.err.value = <<"q">>
    /\ call.err.subject = MslField

\* C17: a multi-select value is split on the separator of the options: with
\* the separator ";" the parts are the pieces between the semicolons, and
\* when they all resolve the list of their identifiers is written.
C17_SplitOnConfiguredSeparator ==
    CallOn(MslColumn, MslField, ";") =>
        LET v == trim(input_fields[MslColumn])
            n == PartCount(v, ";")
        IN  Unresolved(v, ";") = {} =>
                /\ call.err = NoError
                /\ upload_options.m[MslField].kind = "list"
                /\ Len(upload_options.m[MslField].l) = n
                /\ \A k \in 1..n :
                       upload_options.m[MslField].l[k] \in ResolvedIds(Part(v, ";", k))

\* the last call was made after init() with a mapping that is an object,
\* names no field twice, only columns of the record and only fields of the
\* metadata structure
ValidCall ==
    /\ call.made
    /\ call.initialised
    /\ options.kind = "object"
    /\ \A j, k \in 1..Len(options.mapping) :
          options.mapping[j].id = options.mapping[k].id => j = k
    /\ \A k \in 1..Len(options.mapping) :
          /\ options.mapping[k].col \in DOMAIN input_fields
          /\ \E f \in 1..Len(metadata_structure.fields) :
                metadata_structure.fields[f].external_id = options.mapping[k].id

\* the pairs of the mapping whose column is empty or all white space
Blank == {k \in 1..Len(options.mapping) : trim(input_fields[options.mapping[k].col]) = <<>>}

\* C18: a pair whose value is empty or all white space causes no error and
\* no write, whatever the type of its field; when all pairs are such, the
\* call ends without an error and the metadata is what it was, absent if it
\* was absent.
C18_BlankValuesSkipped ==
    ValidCall =>
        /\ \A k \in Blank :
              LET id == options.mapping[k].id
              IN  /\ call.err.subject # id
                  /\ (id \in DOMAIN upload_options.m) = (id \in DOMAIN call.before.m)
                  /\ id \in DOMAIN call.before.m => upload_options.m[id] = call.before.m[id]
        /\ Blank = 1..Len(options.mapping) =>
              /\ call.err = NoError
              /\ upload_options = call.before

\* the only pair of the mapping had a blank value and the upload options no
\* metadata: they still have none
C18_Witness ==
    /\ ValidCall
    /\ Len(options.mapping) = 1
    /\ Blank = {1}
    /\ input_fields[options.mapping[1].col] # <<>>
    /\ ~call.before.present
    /\ ~upload_options.present
    /\ call.err = NoError

\* the year, month and day as written at the start of v, in the form
\* YYYY-MM-DD
WrittenDay(v) == [i \in 1..10 |-> IF v[i] = "/" THEN "-" ELSE v[i]]

\* C19: a date value that parses is written as the year, month and day of
\* the input in the form YYYY-MM-DD, whatever its time of day and whatever
\* the time zone of the process.
C19_DatePortionOfInput ==
    CallOn(DateColumn, DateField, "none") =>
        LET v == trim(input_fields[DateColumn])
        IN  NewDate(v).valid =>
                /\ call.err = NoError
                /\ upload_options.m[DateField] = StringValue(WrittenDay(v))

\* C20: a date value that does not parse makes process() throw
\* FailedToProcessMetadataValueError naming the value and the field, its
\* cause being the error of the conversion; a select value that does not
\* resolve makes it throw InvalidDataSourceOptionError itself, wrapped in
\* nothing.
C20_WrappedParseFailure ==
    /\ CallOn(DateColumn, DateField, "none") =>
          LET v == trim(input_fields[DateColumn])
          IN  ~NewDate(v).valid =>
                  /\ call.err.name = "FailedToProcessMetadataValueError"
                  /\ call.err.value = v
                  /\ call.err.subject = DateField
                  /\ call.err.cause = RangeError.name
    /\ CallOn(SslColumn, SslField, "none") =>
          (ResolvedIds(trim(input_fields[SslColumn])) = {} =>
              /\ call.err.name = "InvalidDataSourceOptionError"
              /\ call.err.cause = "none")
    /\ CallOn(MslColumn, MslField, "none") =>
          (Unresolved(trim(input_fields[MslColumn]), ",") # {} =>
              /\ call.err.name = "InvalidDataSourceOptionError"
              /\ call.err.cause = "none")

\* "20241225-123042" did not parse: the error wraps the RangeError
C20_Witness ==
    /\ CallOn(DateColumn, DateField, "none")
    /\ ~NewDate(input_fields[DateColumn]).valid
    /\ Len(input_fields[DateColumn]) = 15
    /\ call.err.name = "FailedToProcessMetadataValueError"
    /\ call.err.cause = "RangeError"

\* C21: a call of process() that ends without an error returns an object,
\* which tells the fields that were written.
C21_ReturnsWrittenFields ==
    (call.made /\ call.err = NoError) => call.returned \notin {"undefined", "nothing"}

\* C22: when a step of the payload construction throws, the outcome record
\* of the record carries the list of the traces gathered before it and a
\* ConstructionError that names the step and has the step's error as cause.
C22_ConstructionErrorWithTraces ==
    \A k \in PayloadLines :
        history[log[k].rec].stage = "build" =>
            /\ ~log[k].plugins_trace.isNull
            /\ log[k].summary.err.name = "ConstructionError"
            /\ log[k].summary.err.subject = smdPluginName
            /\ log[k].summary.err.cause = history[log[k].rec].threw.name

(***************************************************************************)
(* Properties of the counters                                              *)
(***************************************************************************)
\* the counters agree with each other and with what happened: the records
\* started, the records in flight, the lines logged as migrated and as failed
StatsBalanced ==
    /\ stats.attempted = stats.succeeded + stats.failed + stats.concurrent
    /\ stats.attempted = Cardinality({i \in Records : history[i].runs > 0})
    /\ stats.concurrent = Cardinality(InFlight)
    /\ stats.succeeded =
          Cardinality({k \in PayloadLines : log[k].summary.status = "MIGRATED"})
    /\ stats.failed =
          Cardinality({k \in PayloadLines : log[k].summary.status = "FAILED"})

\* C29: between any two steps of the run attempted = succeeded + failed +
\* concurrent; attempted, succeeded and failed never decrease, and every
\* record started, migrated or failed is counted, whatever the interleaving
\* of the workers.
C29_CountersBalanced ==
    /\ []StatsBalanced
    /\ [][ /\ stats'.attempted >= stats.attempted
           /\ stats'.succeeded >= stats.succeeded
           /\ stats'.failed >= stats.failed ]_vars

\* a record in flight while another has been migrated and another has failed
C29_Witness ==
    /\ stats.concurrent >= 1
    /\ stats.succeeded >= 1
    /\ stats.failed >= 1

\* the records started whose outcome is not in the log
Unwritten == {i \in Records : history[i].runs > 0 /\ OutcomesOf(i) = {}}

\* C30: the outcome of a record is written to the log no later than its slot
\* is given back, on success and on failure: every step that lowers
\* stats.concurrent appends the payload line of a record that was in flight,
\* so the records whose outcome is not written are the ones in flight and no
\* record starts in the slot of one of them.
C30_LoggedBeforeRelease ==
    /\ [](Unwritten = InFlight /\ Cardinality(Unwritten) = stats.concurrent)
    /\ [][ stats'.concurrent < stats.concurrent =>
               /\ Len(log') = Len(log) + 1
               /\ log'[Len(log')].flow = "payload"
               /\ log'[Len(log')].rec \in InFlight
               /\ InFlight' = InFlight \ {log'[Len(log')].rec} ]_vars

\* a record in flight in a slot that an earlier record, failed or migrated,
\* has given back
C30_Witness ==
    \E i \in Records :
        /\ worker[i].pc = "returned"
        /\ OutcomesOf(i) # {}
        /\ \E j \in InFlight : j > MaxLimit /\ j > i

\* C31: once the run has settled, normally or because the source raised,
\* every record pulled from the source has its outcome in the log, no worker
\* is still running and no further outcome record is written.
C31_AllWrittenWhenSettled ==
    /\ [](mapLimit.settled # "pending" => InFlight = {} /\ Unwritten = {})
    /\ [][ mapLimit.settled # "pending" => PayloadLines' = PayloadLines ]_vars

\* C32: while the iteration runs fewer records than the limit and the source
\* has not ended, a pull of the next record is outstanding, whatever the
\* records in flight are doing, and the record the source yields is started
\* in the step that yields it.
C32_FreeSlotIsRefilled ==
    /\ []( ( /\ mapLimit.called
             /\ ~mapLimit.done
             /\ mapLimit.running < maxConcurrentUploads ) => mapLimit.awaiting )
    /\ [][ generator'.yielded > generator.yielded =>
               /\ generator'.yielded = generator.yielded + 1
               /\ worker[generator'.yielded].pc = "notStarted"
               /\ worker'[generator'.yielded].pc = "build" ]_vars

\* a later record has finished and the record after it has been started
\* while an earlier record is still at its remote call
C32_Witness ==
    \E i, j, k \in Records :
        /\ i < j /\ j < k
        /\ worker[i].pc = "call"
        /\ worker[j].pc = "done"
        /\ worker[k].pc \in {"build", "call"}

\* C34: at every point between two steps of the run the number of outcome
\* records in the log is succeeded + failed, and the step that writes the
\* outcome record of a record is the step that counts it, as succeeded when
\* the record says MIGRATED and as failed when it says FAILED.
C34_CountedWhenWritten ==
    /\ [](Cardinality(PayloadLines) = stats.succeeded + stats.failed)
    /\ [][ (Len(log') # Len(log) /\ log'[Len(log')].flow = "payload") =>
               /\ Len(log') = Len(log) + 1
               /\ IF log'[Len(log')].summary.status = "MIGRATED"
                  THEN /\ stats'.succeeded = stats.succeeded + 1
                       /\ stats'.failed = stats.failed
                  ELSE /\ stats'.failed = stats.failed + 1
                       /\ stats'.succeeded = stats.succeeded ]_vars
    /\ [][ (stats'.succeeded # stats.succeeded \/ stats'.failed # stats.failed) =>
               (Len(log') = Len(log) + 1 /\ log'[Len(log')].flow = "payload") ]_vars

\* two outcome records are in the log, one counted as succeeded and one as
\* failed, while a third record has been attempted and is not yet counted
C34_Witness ==
    /\ Cardinality(PayloadLines) = 2
    /\ stats.succeeded = 1
    /\ stats.failed = 1
    /\ stats.attempted = 3
    /\ mapLimit.settled = "pending"

(***************************************************************************)
(* Properties of the report                                                *)
(***************************************************************************)
\* the log line of the n-th payload record of the log
PayloadLine(n) ==
    CHOOSE k \in PayloadLines : Cardinality({j \in PayloadLines : j <= k}) = n

C28_StatusColumns ==
    report.made =>
        \A n \in 1..Len(report.rows) :
            LET row == report.rows[n]
                response == log[PayloadLine(n)].response
            IN  IF row.Cld_Status # "MIGRATED"
                THEN /\ row.Cld_Error # NoError
                     /\ row.Cld_Error = history[log[PayloadLine(n)].rec].threw
                     /\ row.Cld_Operation = "null"
                     /\ row.Cld_PublicId = <<>>
                     /\ row.Cld_Etag = <<>>
                ELSE /\ row.Cld_Error = NoError
                     /\ response.overwritten => row.Cld_Operation = "Overwritten"
                     /\ ~response.overwritten /\ response.existing =>
                            row.Cld_Operation = "SkippedAlreadyExists"
                     /\ ~response.overwritten /\ ~response.existing =>
                            row.Cld_Operation = "Uploaded"

\* a report with a failed row and with a migrated row whose response says
\* both overwritten and existing
C28_Witness ==
    /\ report.made
    /\ \E n \in 1..Len(report.rows) : report.rows[n].Cld_Status = "FAILED"
    /\ \E n \in 1..Len(report.rows) :
          /\ report.rows[n].Cld_Status = "MIGRATED"
          /\ log[PayloadLine(n)].response.overwritten
          /\ log[PayloadLine(n)].response.existing
    /\ \E n \in 1..Len(report.rows) :
          report.rows[n].Cld_Operation = "SkippedAlreadyExists"

(***************************************************************************)
(* Properties of the plugin manager                                        *)
(***************************************************************************)
\* C23: a call of loadPlugins_Async made after another one - be that one
\* still waiting for a plugin's init_Async, ended well or ended with an
\* error - rejects with 'Plugin manager has already been initialized' and
\* changes neither the registry nor the loading in progress.
C23_LoadsAtMostOnce ==
    [][ (client.called /\ client'.op = "load" /\ client' # client) =>
            /\ client'.err = AlreadyInitializedError
            /\ LOADED_PLUGINS' = LOADED_PLUGINS
            /\ loader' = loader
            /\ IS_INITIALIZED' = IS_INITIALIZED ]_vars

\* a second call was made while the first was waiting for init_Async, and
\* was rejected
C23_Witness ==
    /\ client.op = "load"
    /\ client.phase = "init"
    /\ client.err = AlreadyInitializedError

\* the plugins whose init_Async has been called
InitCalled == {loader.inits[k] : k \in 1..Len(loader.inits)}

\* C24: a plugin file whose module lacks the plugin object, its init_Async
\* function or its process_Async function makes loadPlugins_Async throw an
\* error that names the file and the first hook that is missing; the
\* plugin's init_Async is not called, the plugin is not registered and the
\* loading does not go past the file.
C24_InvalidPluginRejected ==
    \A j \in 1..Len(loader.files) :
        LET file == loader.files[j]
        IN  file.exports \in {"noPlugin", "noInit", "noProcess"} =>
                /\ file.name \notin InitCalled
                /\ file.name \notin DOMAIN LOADED_PLUGINS
                /\ loader.next <= j
                /\ (loader.next = j /\ loader.pc # "loop") =>
                      /\ loader.pc = "threw"
                      /\ loader.named = FileName(file)
                      /\ loader.error = IF file.exports = "noProcess"
                                        THEN "no process_Async"
                                        ELSE "no init_Async"

\* broken.js exports a plugin without process_Async: the loading threw at
\* it, before any init_Async was called
C24_Witness ==
    /\ loader.pc = "threw"
    /\ loader.error = "no process_Async"
    /\ loader.named = <<"broken", ".js">>
    /\ loader.files[loader.next].exports = "noProcess"
    /\ InitCalled = {}

\* C25: when the init_Async of a plugin throws, loadPlugins_Async throws
\* that error; the plugin is not registered and no file listed after it is
\* initialised or registered.
C25_InitFailureAborts ==
    loader.error = "init_Async threw" =>
        /\ loader.pc = "threw"
        /\ loader.inits[Len(loader.inits)] = loader.files[loader.next].name
        /\ loader.files[loader.next].name \notin DOMAIN LOADED_PLUGINS
        /\ \A j \in (loader.next + 1)..Len(loader.files) :
              /\ loader.files[j].name \notin InitCalled
              /\ loader.files[j].name \notin DOMAIN LOADED_PLUGINS

\* the init_Async of the first of two plugins threw: the second was left
\* alone
C25_Witness ==
    /\ loader.error = "init_Async threw"
    /\ loader.next = 1
    /\ Len(loader.files) = 2
    /\ loader.files[2].exports = "valid"
    /\ LOADED_PLUGINS = NoPlugins

\* the files whose plugin had its init_Async called once and ended well: the
\* loading has gone past them
InitCompleted ==
    {j \in 1..Len(loader.files) :
        /\ j < loader.next
        /\ Cardinality({k \in 1..Len(loader.inits) :
                            loader.inits[k] = loader.files[j].name}) = 1}

\* C26: getPlugin(name) returns the plugin of the file with the base name
\* name if that plugin's init_Async was called once and ended well during
\* loadPlugins_Async; for every other name, and before the loading, it
\* throws "Plugin '<name>' not found".
C26_GetPluginOnlyAfterInit ==
    [][ (client'.op = "get" /\ client' # client) =>
            IF \E j \in InitCompleted : loader.files[j].name = client'.name
            THEN /\ client'.err = NoError
                 /\ \E j \in InitCompleted :
                        /\ loader.files[j].name = client'.name
                        /\ loader.files[j].exports = client'.plugin
            ELSE client'.err = PluginNotFoundError(client'.name) ]_vars

(***************************************************************************)
(* Further properties of the structured metadata mapper                    *)
(***************************************************************************)
\* the position of the first entry of the mapping that breaks a rule, 0 when
\* none does: a target already named by an earlier entry, a source column
\* the record does not have, a target the schema does not have
FirstDuplicate ==
    FirstIndex({k \in 1..Len(options.mapping) :
                    \E j \in 1..(k - 1) : options.mapping[j].id = options.mapping[k].id})

FirstMissingColumn ==
    FirstIndex({k \in 1..Len(options.mapping) :
                    options.mapping[k].col \notin DOMAIN input_fields})

FirstUnknownTarget ==
    FirstIndex({k \in 1..Len(options.mapping) :
                    \A f \in 1..Len(metadata_structure.fields) :
                        metadata_structure.fields[f].external_id # options.mapping[k].id})

\* C33: a call with a mapping object reports the InvalidMappingError of the
\* first rule the mapping breaks - duplicate target, then source column
\* missing from the record, then target unknown to the schema - naming the
\* offending identifier or column, and no InvalidMappingError when it breaks
\* none; the error depends on the mapping and the record alone.
C33_FirstViolatedRuleReported ==
    (call.made /\ call.initialised /\ options.kind = "object") =>
        IF FirstDuplicate # 0
        THEN call.err = InvalidMappingError("Duplicate external_id found",
                                            options.mapping[FirstDuplicate].id)
        ELSE IF FirstMissingColumn # 0
        THEN call.err = InvalidMappingError("CSV column not found in input fields",
                                            options.mapping[FirstMissingColumn].col)
        ELSE IF FirstUnknownTarget # 0
        THEN call.err = InvalidMappingError("External ID not found in metadata structure",
                                            options.mapping[FirstUnknownTarget].id)
        ELSE call.err.name # "InvalidMappingError"

\* the targets the mapping names
Targets == {options.mapping[k].id : k \in 1..Len(options.mapping)}

\* C35: after a successful call every entry of the metadata whose key is
\* not a target of the mapping is as before and no other key has appeared,
\* every target with a non-blank source value holds its resolved value,
\* whatever it held before, and every target with a blank source value has
\* the entry it had before, or none.
C35_MergeKeepsOtherEntries ==
    (ValidCall /\ call.err = NoError) =>
        /\ \A key \in DOMAIN call.before.m \ Targets :
              /\ key \in DOMAIN upload_options.m
              /\ upload_options.m[key] = call.before.m[key]
        /\ DOMAIN upload_options.m \subseteq DOMAIN call.before.m \cup Targets
        /\ \A k \in 1..Len(options.mapping) :
              LET id == options.mapping[k].id
                  value == trim(input_fields[options.mapping[k].col])
              IN  IF k \in Blank
                  THEN /\ (id \in DOMAIN upload_options.m) = (id \in DOMAIN call.before.m)
                       /\ id \in DOMAIN call.before.m =>
                              upload_options.m[id] = call.before.m[id]
                  ELSE /\ upload_options.present
                       /\ id \in DOMAIN upload_options.m
                       /\ upload_options.m[id] =
                              processMetadataValue(lookupFieldSchema(id), value).val

\* a successful call that replaced the entry of one target, left the entry of
\* a field the mapping does not name, and skipped a target with a blank value
C35_Witness ==
    /\ ValidCall
    /\ call.err = NoError
    /\ Len(options.mapping) = 2
    /\ Blank = {2}
    /\ TextField \in DOMAIN call.before.m
    /\ upload_options.m[TextField] = StringValue(<<"x">>)
    /\ call.before.m[TextField] # StringValue(<<"x">>)
    /\ FieldA \in DOMAIN upload_options.m
    /\ SslField \notin DOMAIN upload_options.m

OtherField == "smd_other"

\* C37: a non-blank value for a target whose declared type is none of the
\* five makes process() throw the generic error of the unsupported type
\* itself, which is not the kind of error a value that fails to parse gives.
C37_UnsupportedTypeRaised ==
    CallOn(TextColumn, OtherField, "none") =>
        /\ call.err = FieldTypeNotFoundError(OtherField)
        /\ call.err.name # "FailedToProcessMetadataValueError"

\* C37 as amended: it makes process() throw FailedToProcessMetadataValueError
\* naming the value and the field, the kind of error a value that fails to
\* parse gives, with the generic error of the unsupported type as its cause,
\* which is not the cause a parse failure has; nothing is written.
C37_UnsupportedTypeWrapped ==
    CallOn(TextColumn, OtherField, "none") =>
        /\ call.err.name = "FailedToProcessMetadataValueError"
        /\ call.err.subject = OtherField
        /\ call.err.value = trim(input_fields[TextColumn])
        /\ call.err.cause = FieldTypeNotFoundError(OtherField).name
        /\ call.err.cause # RangeError.name
        /\ upload_options = call.before

\* "x" for the boolean field: the error wraps the generic one
C37_Witness ==
    /\ CallOn(TextColumn, OtherField, "none")
    /\ input_fields[TextColumn] = <<"x">>
    /\ lookupFieldSchema(OtherField).type = "boolean"
    /\ call.err.cause = "Error"

\* C38: a multi-select value with an empty part - a separator that leads,
\* trails or follows another - is not shortened: the empty part is resolved
\* like the others, so that, no active option having an empty identifier or
\* label, the call ends with InvalidDataSourceOptionError and writes nothing;
\* and when every part resolves the list written has one identifier for each
\* part, a repeated part giving its identifier again.
C38_EmptyAndRepeatedPartsKept ==
    CallOn(MslColumn, MslField, "none") =>
        LET v == trim(input_fields[MslColumn])
            n == PartCount(v, ",")
        IN  /\ ( /\ \E k \in 1..n : Part(v, ",", k) = <<>>
                 /\ ResolvedIds(<<>>) = {} ) =>
                    /\ call.err.name = "InvalidDataSourceOptionError"
                    /\ call.err.subject = MslField
                    /\ (\A k \in 1..n : Part(v, ",", k) = <<>> \/ k \notin Unresolved(v, ","))
                          => call.err.value = <<>>
                    /\ upload_options = call.before
            /\ Unresolved(v, ",") = {} =>
                    /\ call.err = NoError
                    /\ Len(upload_options.m[MslField].l) = n
                    /\ \A j, k \in 1..n :
                          Part(v, ",", j) = Part(v, ",", k) =>
                              upload_options.m[MslField].l[j] = upload_options.m[MslField].l[k]

\* ",a": the part before the comma is empty and no option answers to it
C38_Witness ==
    /\ CallOn(MslColumn, MslField, "none")
    /\ input_fields[MslColumn] = <<",", "a">>
    /\ Part(input_fields[MslColumn], ",", 1) = <<>>
    /\ call.err = InvalidDataSourceOptionError(<<>>, MslField)
    /\ upload_options = call.before

====
